---- MODULE Spec2Model ----
(***************************************************************************)
(* Classroom aggregator: the run() workflow of main.py, the two scrapers   *)
(* (google_classroom_scraper.py, brightspace_scraper.py), the data model   *)
(* (models.py) and the login flows of auth.py.                             *)
(*                                                                         *)
(* Texts read from a page are TLA+ strings; the string operations the code *)
(* applies to them (lower/upper, strip, split on newlines, substring       *)
(* tests, the aria-label pattern) are computed character by character.     *)
(* What the browser returns (the elements of a page, the text of each, the *)
(* result of a wait, whether a call raises) is the environment: every      *)
(* action draws it from a bounded set.                                     *)
(***************************************************************************)
EXTENDS Integers, Sequences, FiniteSets, TLC

(***************************************************************************)
(* Strings.                                                                *)
(***************************************************************************)
LowerAlphabet == "abcdefghijklmnopqrstuvwxyz"
UpperAlphabet == "ABCDEFGHIJKLMNOPQRSTUVWXYZ"

CharAt(s, i) == SubSeq(s, i, i)

\* str.lower() of one character.
LowerChar(c) ==
    IF \E i \in 1..Len(UpperAlphabet) : CharAt(UpperAlphabet, i) = c
    THEN CharAt(LowerAlphabet, CHOOSE i \in 1..Len(UpperAlphabet) : CharAt(UpperAlphabet, i) = c)
    ELSE c

\* str.upper() of one character.
UpperChar(c) ==
    IF \E i \in 1..Len(LowerAlphabet) : CharAt(LowerAlphabet, i) = c
    THEN CharAt(UpperAlphabet, CHOOSE i \in 1..Len(LowerAlphabet) : CharAt(LowerAlphabet, i) = c)
    ELSE c

RECURSIVE LowerFrom(_, _)
LowerFrom(s, i) ==
    IF i > Len(s) THEN "" ELSE LowerChar(CharAt(s, i)) \o LowerFrom(s, i + 1)

\* str.lower()
Lower(s) == LowerFrom(s, 1)

RECURSIVE UpperFrom(_, _)
UpperFrom(s, i) ==
    IF i > Len(s) THEN "" ELSE UpperChar(CharAt(s, i)) \o UpperFrom(s, i + 1)

\* str.upper()
Upper(s) == UpperFrom(s, 1)

\* Python's `sub in s`.
Contains(s, sub) ==
    \E i \in 1..(Len(s) - Len(sub) + 1) : SubSeq(s, i, i + Len(sub) - 1) = sub

\* str.startswith
StartsWith(s, p) == Len(p) <= Len(s) /\ SubSeq(s, 1, Len(p)) = p

IsSpace(c) == c \in {" ", "\n", "\t"}

\* str.strip(): the text between the first and the last non-space character.
Strip(s) ==
    LET solid == {i \in 1..Len(s) : ~IsSpace(CharAt(s, i))}
    IN  IF solid = {} THEN ""
        ELSE SubSeq(s, CHOOSE i \in solid : \A j \in solid : i <= j,
                       CHOOSE i \in solid : \A j \in solid : j <= i)

\* str.rfind(c): the last index of c in s (1-based), 0 when absent.
RFind(s, c) ==
    LET hits == {i \in 1..Len(s) : CharAt(s, i) = c}
    IN  IF hits = {} THEN 0 ELSE CHOOSE i \in hits : \A j \in hits : j <= i

RECURSIVE SplitFrom(_, _, _)
SplitFrom(s, start, i) ==
    IF i > Len(s) THEN <<SubSeq(s, start, Len(s))>>
    ELSE IF CharAt(s, i) = "\n"
         THEN <<SubSeq(s, start, i - 1)>> \o SplitFrom(s, i + 1, i + 1)
         ELSE SplitFrom(s, start, i + 1)

\* str.split("\n")
SplitLines(s) == SplitFrom(s, 1, 1)

RECURSIVE KeepSolid(_)
KeepSolid(ls) ==
    IF ls = <<>> THEN <<>>
    ELSE IF Strip(Head(ls)) = "" THEN KeepSolid(Tail(ls))
         ELSE <<Strip(Head(ls))>> \o KeepSolid(Tail(ls))

\* [l.strip() for l in text.split("\n") if l.strip()]
SolidLines(text) == KeepSolid(SplitLines(text))

\* s[:n]
Prefix(s, n) == SubSeq(s, 1, IF n < Len(s) THEN n ELSE Len(s))

(***************************************************************************)
(* models.py                                                               *)
(***************************************************************************)
GOOGLE_CLASSROOM == "Google Classroom"
BRIGHTSPACE == "Brightspace"

NOT_SUBMITTED == "Not Submitted"
MISSING == "Missing"
LATE == "Late"
ASSIGNED == "Assigned"
UPCOMING == "Upcoming"

ASSIGNMENT == "Assignment"
ANNOUNCEMENT == "Announcement"
MATERIAL == "Material"
QUIZ == "Quiz"
EVENT == "Event"

\* Optional[datetime]: `has` is FALSE for None; `t` counts days from the
\* moment of the run (datetime.now() is 0); `aware` tells a datetime that
\* carries a timezone from a naive one.
NoDate == [has |-> FALSE, aware |-> FALSE, t |-> 0]
Naive(n) == [has |-> TRUE, aware |-> FALSE, t |-> n]
Aware(n) == [has |-> TRUE, aware |-> TRUE, t |-> n]

\* ClassInfo
ClassInfo(name, platform, url, short_code) ==
    [name |-> name, platform |-> platform, url |-> url, short_code |-> short_code]

\* Assignment.  `raw` and `via` are not fields of the dataclass: they record
\* the text of the fragment the item was built from and the extraction path
\* that built it.
Assignment(title, course_name, platform, item_type, status, due_date, raw, via) ==
    [title |-> title, course_name |-> course_name, platform |-> platform,
     item_type |-> item_type, status |-> status, due_date |-> due_date,
     raw |-> raw, via |-> via]

(***************************************************************************)
(* Helpers shared by the two scrapers.                                     *)
(***************************************************************************)
DEFAULT_SEMESTER_CLASSES == <<"ENG", "GLE", "PPL", "History">>

\* `semester_classes or DEFAULT_SEMESTER_CLASSES`
SemesterOrDefault(semester_classes) ==
    IF semester_classes = <<>> THEN DEFAULT_SEMESTER_CLASSES ELSE semester_classes

\* The match without .upper() on either side.
_matches_semester_class_cased(class_name, semester_classes) ==
    LET classes == SemesterOrDefault(semester_classes)
    IN  \E i \in 1..Len(classes) : Contains(class_name, classes[i])

_matches_semester_class(class_name, semester_classes) ==
    LET classes == SemesterOrDefault(semester_classes)
    IN  \E i \in 1..Len(classes) : Contains(Upper(class_name), Upper(classes[i]))

_get_short_code(class_name, semester_classes) ==
    LET classes == SemesterOrDefault(semester_classes)
        hits == {i \in 1..Len(classes) : Contains(Upper(class_name), Upper(classes[i]))}
    IN  IF hits = {} THEN Prefix(class_name, 10)
        ELSE Upper(classes[CHOOSE i \in hits : \A j \in hits : i <= j])

RECURSIVE SelectSeq2(_, _, _)
\* [c for c in cs if _matches_semester_class(c.name, semester_classes)]
SelectSeq2(cs, semester_classes, i) ==
    IF i > Len(cs) THEN <<>>
    ELSE (IF _matches_semester_class(cs[i].name, semester_classes) THEN <<cs[i]>> ELSE <<>>)
         \o SelectSeq2(cs, semester_classes, i + 1)

\* The filter of scrape_all, with its fallback to the whole list.
FilterClasses(all_classes, semester_classes) ==
    LET matched == SelectSeq2(all_classes, semester_classes, 1)
    IN  IF matched = <<>> THEN all_classes ELSE matched

\* {a.title for a in items}
Titles(items) == {items[i].title : i \in 1..Len(items)}

RECURSIVE AppendNew(_, _, _)
\* for item in todo: if item.title not in existing: items.append(item)
\* (`existing` is built once, before the loop, and not updated in it)
AppendNew(items, todo, existing) ==
    IF todo = <<>> THEN items
    ELSE AppendNew(IF Head(todo).title \in existing THEN items
                   ELSE Append(items, Head(todo)),
                   Tail(todo), existing)

(***************************************************************************)
(* google_classroom_scraper.py: parsing.                                   *)
(*                                                                         *)
(* A stream container of the environment is a record                       *)
(*   [raises, aria, desc, due, parsed, text]:                              *)
(* `aria` is the aria-label of its first a[aria-label] ("" when it has     *)
(* none), `desc` the text of its first .JvYRu/.qoXqmb element ("" when it  *)
(* has none), `due` the text of its .MXd8B element ("" when it has none),  *)
(* `parsed` what dateutil makes of the due text (NoDate when it raises),   *)
(* `text` the container's inner text, and `raises` says that reading the   *)
(* container raises.                                                       *)
(***************************************************************************)
GC_BASE_URL == "https://classroom.google.com"

AriaKinds == <<"Assignment", "Quiz", "Material", "Question">>

NoMatch == [ok |-> FALSE, kind |-> "", title |-> ""]

\* re.match(r'(Assignment|Quiz|Material|Question):\s*"(.+)"', aria)
AriaMatch(aria) ==
    LET ks == {i \in 1..Len(AriaKinds) : StartsWith(aria, AriaKinds[i] \o ":")}
    IN  IF ks = {} THEN NoMatch
        ELSE
          LET k == AriaKinds[CHOOSE i \in ks : TRUE]
              solid == {i \in (Len(k) + 2)..Len(aria) : ~IsSpace(CharAt(aria, i))}
              q == IF solid = {} THEN 0 ELSE CHOOSE i \in solid : \A j \in solid : i <= j
              closes == {j \in (q + 2)..Len(aria) :
                           /\ CharAt(aria, j) = "\""
                           /\ \A m \in (q + 1)..(j - 1) : CharAt(aria, m) # "\n"}
          IN  IF q = 0 \/ CharAt(aria, q) # "\"" \/ closes = {} THEN NoMatch
              ELSE [ok |-> TRUE, kind |-> k,
                    title |-> SubSeq(aria, q + 1,
                                     (CHOOSE j \in closes : \A m \in closes : m <= j) - 1)]

\* The item type chosen from the matched kind.
KindItemType(kind) ==
    IF Contains(Lower(kind), "quiz") \/ Contains(Lower(kind), "question") THEN QUIZ
    ELSE IF Contains(Lower(kind), "material") THEN MATERIAL
    ELSE ASSIGNMENT

\* Steps 1 and 2 of _parse_stream_item: the title from the aria-label, else
\* from the description line ("Teacher posted a new assignment: Title").
StreamTitle(c) ==
    LET m == AriaMatch(c.aria)
        desc_text == Strip(c.desc)
        colon_idx == RFind(desc_text, ":")
    IN  IF m.ok THEN m.title
        ELSE IF colon_idx # 0
             THEN Strip(SubSeq(desc_text, colon_idx + 1, Len(desc_text)))
             ELSE desc_text

\* re.search(r"(?:due|Due)\s+(.+)", raw, re.IGNORECASE)
DueMatches(raw) ==
    \E i \in 1..Len(raw) :
       /\ i + 3 <= Len(raw)
       /\ Lower(SubSeq(raw, i, i + 2)) = "due"
       /\ IsSpace(CharAt(raw, i + 3))
       /\ \E j \in (i + 4)..Len(raw) :
             /\ CharAt(raw, j) # "\n"
             /\ \A m \in (i + 3)..(j - 1) : IsSpace(CharAt(raw, m))

\* Step 3: the due date of a container.
StreamDue(c) == IF DueMatches(Strip(c.due)) THEN c.parsed ELSE NoDate

\* Step 4 of _parse_stream_item: "drop" stands for `return None`.
StreamStatus(text) ==
    LET full_text == Lower(Strip(text))
    IN  IF Contains(full_text, "missing") THEN MISSING
        ELSE IF Contains(full_text, "turned in") \/ Contains(full_text, "done") THEN "drop"
        ELSE IF Contains(full_text, "late") THEN LATE
        ELSE ASSIGNED

\* _parse_stream_item without its `if not title: return None`.
_parse_stream_item_untitled(c, cls) ==
    LET m == AriaMatch(c.aria)
        status == StreamStatus(c.text)
    IN  IF status = "drop" THEN <<>>
        ELSE <<Assignment(StreamTitle(c), cls.name, GOOGLE_CLASSROOM,
                          IF m.ok THEN KindItemType(m.kind) ELSE ASSIGNMENT,
                          status, StreamDue(c), c.text, "gc_stream")>>

\* _parse_stream_item: the empty sequence is None.
_parse_stream_item(c, cls) ==
    LET m == AriaMatch(c.aria)
        title == StreamTitle(c)
        status == StreamStatus(c.text)
    IN  IF title = "" THEN <<>>
        ELSE IF status = "drop" THEN <<>>
        ELSE <<Assignment(title, cls.name, GOOGLE_CLASSROOM,
                          IF m.ok THEN KindItemType(m.kind) ELSE ASSIGNMENT,
                          status, StreamDue(c), c.text, "gc_stream")>>

\* The course name _parse_global_todo_item reads off the item text.
TodoCourseName(text, semester_classes) ==
    LET hits == {i \in 1..Len(semester_classes) :
                    Contains(Upper(Strip(text)), Upper(semester_classes[i]))}
    IN  IF hits = {} THEN "Unknown Class"
        ELSE semester_classes[CHOOSE i \in hits : \A j \in hits : i <= j]

\* _parse_global_todo_item
_parse_global_todo_item(c, semester_classes) ==
    LET m == AriaMatch(c.aria)
        title == StreamTitle(c)
    IN  IF title = "" THEN <<>>
        ELSE <<Assignment(title, TodoCourseName(c.text, semester_classes),
                          GOOGLE_CLASSROOM,
                          IF m.ok THEN KindItemType(m.kind) ELSE ASSIGNMENT,
                          NOT_SUBMITTED, StreamDue(c), c.text, "gc_todo")>>

(***************************************************************************)
(* google_classroom_scraper.py: the class list.                            *)
(*                                                                         *)
(* A link of the environment is [raises, href, inner, content]: its href   *)
(* attribute ("" when it has none), its inner_text() and text_content().   *)
(***************************************************************************)
\* re.search(r"/c/([^/]+)", href): the course id, "" when nothing matches.
CourseIdOf(href) ==
    LET starts == {i \in 1..(Len(href) - 3) :
                     SubSeq(href, i, i + 2) = "/c/" /\ CharAt(href, i + 3) # "/"}
    IN  IF starts = {} THEN ""
        ELSE LET i == CHOOSE a \in starts : \A b \in starts : a <= b
                 stops == {j \in (i + 3)..Len(href) : CharAt(href, j) = "/"}
             IN  SubSeq(href, i + 3,
                        IF stops = {} THEN Len(href)
                        ELSE (CHOOSE a \in stops : \A b \in stops : a <= b) - 1)

\* re.sub(r"/sp/.+$", "", url)
StripSp(url) ==
    LET starts == {i \in 1..(Len(url) - 4) : SubSeq(url, i, i + 3) = "/sp/"}
    IN  IF starts = {} THEN url
        ELSE SubSeq(url, 1, (CHOOSE a \in starts : \A b \in starts : a <= b) - 1)

\* inner_text().strip(), else text_content().strip()
LinkText(l) == IF Strip(l.inner) # "" THEN Strip(l.inner) ELSE Strip(l.content)

\* course_texts.setdefault(cid, []).append((href, text)): the groups are kept
\* in the order their course ids were first seen, as a dict keeps them.
AddCourseText(groups, cid, entry) ==
    IF \E g \in 1..Len(groups) : groups[g].cid = cid
    THEN [g \in 1..Len(groups) |->
            IF groups[g].cid = cid
            THEN [groups[g] EXCEPT !.entries = Append(@, entry)]
            ELSE groups[g]]
    ELSE Append(groups, [cid |-> cid, entries |-> <<entry>>])

RECURSIVE CollectCourseTexts(_, _)
\* The loop over the a[href*="/c/"] links.
CollectCourseTexts(links, groups) ==
    IF links = <<>> THEN groups
    ELSE LET l == Head(links)
             url == IF StartsWith(l.href, "/") THEN GC_BASE_URL \o l.href ELSE l.href
             cid == CourseIdOf(url)
         IN  CollectCourseTexts(Tail(links),
                IF l.raises \/ LinkText(l) = "" \/ ~Contains(l.href, "/c/") \/ cid = ""
                THEN groups
                ELSE AddCourseText(groups, cid, [url |-> url, text |-> LinkText(l)]))

\* entries[0] without the sort: the text of the link met first.
BestEntryUnsorted(entries) == entries[1]

\* entries.sort(key=lambda e: len(e[1]), reverse=True); entries[0]
\* (the sort is stable: of the longest texts the first one met comes first)
BestEntry(entries) ==
    LET longest == {i \in 1..Len(entries) :
                      \A j \in 1..Len(entries) : Len(entries[j].text) <= Len(entries[i].text)}
    IN  entries[CHOOSE i \in longest : \A j \in longest : i <= j]

\* The display name taken from the first line, whatever its length.
ClassNameOfFirstLine(best_text, cid) ==
    LET lines == SolidLines(best_text)
    IN  IF lines # <<>> THEN lines[1] ELSE cid

\* The display name parsed from the chosen text.
ClassNameOf(best_text, cid) ==
    LET lines == SolidLines(best_text)
    IN  IF Len(lines) >= 2 /\ Len(lines[1]) <= 2 THEN lines[2]
        ELSE IF lines # <<>> THEN lines[1] ELSE cid

\* The ClassInfo built for one course id.
GCClassOf(group, semester_classes) ==
    LET best == BestEntry(group.entries)
        name == ClassNameOf(best.text, group.cid)
    IN  ClassInfo(name, GOOGLE_CLASSROOM, StripSp(best.url),
                  _get_short_code(name, semester_classes))

RECURSIVE FallbackLinkClasses(_, _)
\* _scrape_class_list_fallback, the broader link selectors.
FallbackLinkClasses(links, semester_classes) ==
    IF links = <<>> THEN <<>>
    ELSE LET l == Head(links)
             text == Strip(l.inner)
         IN  (IF l.raises \/ text = "" THEN <<>>
              ELSE <<ClassInfo(Strip(SplitLines(text)[1]), GOOGLE_CLASSROOM,
                               IF StartsWith(l.href, "http") THEN l.href
                               ELSE GC_BASE_URL \o l.href,
                               _get_short_code(text, semester_classes))>>)
             \o FallbackLinkClasses(Tail(links), semester_classes)

RECURSIVE FallbackHtmlClasses(_, _)
\* _scrape_class_list_fallback, the pattern over the page HTML.
FallbackHtmlClasses(matches, semester_classes) ==
    IF matches = <<>> THEN <<>>
    ELSE LET m == Head(matches)
             name == Strip(m.name)
         IN  (IF name = "" THEN <<>>
              ELSE <<ClassInfo(name, GOOGLE_CLASSROOM, GC_BASE_URL \o m.href,
                               _get_short_code(name, semester_classes))>>)
             \o FallbackHtmlClasses(Tail(matches), semester_classes)

\* _scrape_class_list_fallback(page)
_scrape_class_list_fallback(env, semester_classes) ==
    LET byLinks == IF env.fallbackRaises THEN <<>>
                   ELSE FallbackLinkClasses(env.fallbackLinks, semester_classes)
    IN  IF byLinks # <<>> THEN byLinks
        ELSE IF env.htmlRaises THEN <<>>
        ELSE FallbackHtmlClasses(env.htmlMatches, semester_classes)

\* GoogleClassroomScraper._scrape_class_list(page)
GC_scrape_class_list(env, semester_classes) ==
    LET groups == CollectCourseTexts(env.links, <<>>)
        classes == [g \in 1..Len(groups) |-> GCClassOf(groups[g], semester_classes)]
    IN  IF classes # <<>> THEN classes
        ELSE _scrape_class_list_fallback(env, semester_classes)

(***************************************************************************)
(* google_classroom_scraper.py: one class, and the global to-do page.      *)
(*                                                                         *)
(* The environment of one class page is                                    *)
(*   [gotoRaises, tabRaises, queryRaises, containers, htmlRaises, html]:   *)
(* whether page.goto(cls.url) raises, whether reaching the Classwork tab   *)
(* raises, whether the container query raises, the stream containers, and  *)
(* the anchor texts the HTML pattern captures.                             *)
(***************************************************************************)
RECURSIVE ParseStreamItems(_, _)
\* for container in containers: try: ... except Exception: (logged)
ParseStreamItems(containers, cls) ==
    IF containers = <<>> THEN <<>>
    ELSE (IF Head(containers).raises THEN <<>>
          ELSE _parse_stream_item(Head(containers), cls))
         \o ParseStreamItems(Tail(containers), cls)

RECURSIVE HtmlItems(_, _)
\* The loop of _parse_classwork_html over the pattern's matches.
HtmlItems(html, cls) ==
    IF html = <<>> THEN <<>>
    ELSE LET title == Strip(Head(html))
         IN  (IF title # "" /\ Len(title) > 2
              THEN <<Assignment(title, cls.name, GOOGLE_CLASSROOM, ASSIGNMENT,
                                ASSIGNED, NoDate, Head(html), "gc_html")>>
              ELSE <<>>)
             \o HtmlItems(Tail(html), cls)

\* _parse_classwork_html(page, cls)
_parse_classwork_html(env, cls) ==
    IF env.htmlRaises THEN <<>> ELSE HtmlItems(env.html, cls)

\* _scrape_classwork_tab(page, cls)
_scrape_classwork_tab(env, cls) ==
    IF env.tabRaises THEN <<>>
    ELSE LET assignments == IF env.queryRaises THEN <<>>
                            ELSE ParseStreamItems(env.containers, cls)
         IN  IF assignments = <<>> THEN _parse_classwork_html(env, cls)
             ELSE assignments

\* GoogleClassroomScraper._scrape_class_assignments(page, cls), when
\* page.goto(cls.url) does not raise.
GC_scrape_class_assignments(env, cls) == _scrape_classwork_tab(env, cls)

RECURSIVE ParseTodoItems(_, _)
\* The container loop of scrape_global_todo.
ParseTodoItems(containers, semester_classes) ==
    IF containers = <<>> THEN <<>>
    ELSE (IF Head(containers).raises THEN <<>>
          ELSE _parse_global_todo_item(Head(containers), semester_classes))
         \o ParseTodoItems(Tail(containers), semester_classes)

RECURSIVE ParseDetailLinks(_)
\* The fallback loop of scrape_global_todo over a[href*="/details"].
ParseDetailLinks(links) ==
    IF links = <<>> THEN <<>>
    ELSE LET m == AriaMatch(Head(links).aria)
         IN  (IF ~Head(links).raises /\ m.ok
              THEN <<Assignment(m.title, "Unknown Class", GOOGLE_CLASSROOM, ASSIGNMENT,
                                NOT_SUBMITTED, NoDate, Head(links).aria, "gc_todo_link")>>
              ELSE <<>>)
             \o ParseDetailLinks(Tail(links))

\* The global to-do pass without the test of the page body: both scans run
\* whatever the page says.
scrape_global_todo_unguarded(env, semester_classes) ==
    IF env.raises # "no" THEN <<>>
    ELSE IF env.containers # <<>> THEN ParseTodoItems(env.containers, semester_classes)
    ELSE ParseDetailLinks(env.links)

\* scrape_global_todo(): env is [raises, body, containers, links]; `raises`
\* is "no", "page" (no page could be had: the exception leaves the method)
\* or "goto" (raised inside the method's try, which returns what it has).
scrape_global_todo(env, semester_classes) ==
    IF env.raises # "no" THEN <<>>
    ELSE IF Contains(Lower(env.body), "nothing on your to-do list") THEN <<>>
    ELSE IF env.containers # <<>> THEN ParseTodoItems(env.containers, semester_classes)
    ELSE ParseDetailLinks(env.links)

\* main.run, lines 323-330: the global to-do items whose title is not among
\* those of gc_assignments are appended; an exception adds nothing.
MergeGlobalTodo(gc_assignments, env, semester_classes) ==
    IF env.raises = "page" THEN gc_assignments
    ELSE AppendNew(gc_assignments, scrape_global_todo(env, semester_classes),
                   Titles(gc_assignments))

(***************************************************************************)
(* brightspace_scraper.py: parsing.                                        *)
(*                                                                         *)
(* A row of a listing page is [raises, text, parsed]: its inner text, what *)
(* dateutil makes of its first line naming a month (NoDate when it         *)
(* raises on every such line), and whether reading the row raises.         *)
(***************************************************************************)
BS_BASE_URL == "https://tdsb.elearningontario.ca"

IsDigit(c) == c \in {"0", "1", "2", "3", "4", "5", "6", "7", "8", "9"}

\* A character of \w.
IsWordChar(c) ==
    \/ IsDigit(c) \/ c = "_"
    \/ \E i \in 1..Len(LowerAlphabet) :
          c = CharAt(LowerAlphabet, i) \/ c = CharAt(UpperAlphabet, i)

\* The longest run of digits of s that starts at i ("" when s[i] is none).
DigitsAt(s, i) ==
    LET stops == {j \in i..Len(s) : ~IsDigit(CharAt(s, j))}
    IN  SubSeq(s, i, IF stops = {} THEN Len(s)
                     ELSE (CHOOSE a \in stops : \A b \in stops : a <= b) - 1)

\* re.search(prefix + r"(\d+)", url): the digits after the first occurrence
\* of `prefix` that digits follow, "" when there is none.
DigitsAfter(url, prefix) ==
    LET n == Len(prefix)
        starts == {i \in 1..(Len(url) - n) :
                     SubSeq(url, i, i + n - 1) = prefix /\ IsDigit(CharAt(url, i + n))}
    IN  IF starts = {} THEN ""
        ELSE DigitsAt(url, (CHOOSE a \in starts : \A b \in starts : a <= b) + n)

\* re.search(r'/(\d+)/?$', url)
LastNumericSegment(url) ==
    LET end == IF Len(url) > 0 /\ CharAt(url, Len(url)) = "/" THEN Len(url) - 1 ELSE Len(url)
        starts == {i \in 1..end : /\ CharAt(url, i) = "/" /\ i < end
                                  /\ \A j \in (i + 1)..end : IsDigit(CharAt(url, j))}
    IN  IF starts = {} THEN ""
        ELSE SubSeq(url, (CHOOSE a \in starts : \A b \in starts : a <= b) + 1, end)

\* _extract_course_id(url)
_extract_course_id(url) ==
    IF DigitsAfter(url, "/d2l/home/") # "" THEN DigitsAfter(url, "/d2l/home/")
    ELSE IF DigitsAfter(url, "ou=") # "" THEN DigitsAfter(url, "ou=")
    ELSE LastNumericSegment(url)

MonthTokens == {"jan", "feb", "mar", "apr", "may", "jun",
                "jul", "aug", "sep", "oct", "nov", "dec"}

\* re.search(r'\b(jan|feb|...|dec)\b', line, re.I)
HasMonth(line) ==
    \E i \in 1..(Len(line) - 2) :
       /\ Lower(SubSeq(line, i, i + 2)) \in MonthTokens
       /\ (i = 1 \/ ~IsWordChar(CharAt(line, i - 1)))
       /\ (i + 2 = Len(line) \/ ~IsWordChar(CharAt(line, i + 3)))

\* The due date of a row: parsed from its first line naming a month.
RowDue(row, lines) ==
    IF \E i \in 1..Len(lines) : HasMonth(lines[i]) THEN row.parsed ELSE NoDate

\* One row of the assignment listing: the empty sequence is `continue`.
AssignmentRow(row, cls) ==
    LET text == Strip(row.text)
        lines == SolidLines(text)
        text_lower == Lower(text)
    IN  IF row.raises THEN <<>>
        ELSE IF text = "" \/ Len(text) < 3 THEN <<>>
        ELSE IF Lower(lines[1]) \in {"name", "assignment", "due date", "status"} THEN <<>>
        ELSE IF Contains(text_lower, "submitted") \/ Contains(text_lower, "completed") THEN <<>>
        ELSE <<Assignment(lines[1], cls.name, BRIGHTSPACE, ASSIGNMENT,
                          IF Contains(text_lower, "overdue") \/ Contains(text_lower, "past due")
                          THEN MISSING ELSE NOT_SUBMITTED,
                          RowDue(row, lines), row.text, "bs_rows")>>

\* One row of the quiz listing.
QuizRow(row, cls) ==
    LET text == Strip(row.text)
        lines == SolidLines(text)
        text_lower == Lower(text)
    IN  IF row.raises THEN <<>>
        ELSE IF text = "" \/ Len(text) < 3 THEN <<>>
        ELSE IF Lower(lines[1]) \in {"name", "quiz", "date", "status"} THEN <<>>
        ELSE IF Contains(text_lower, "completed") \/ Contains(text_lower, "submitted") THEN <<>>
        ELSE <<Assignment(lines[1], cls.name, BRIGHTSPACE, QUIZ, NOT_SUBMITTED,
                          NoDate, row.text, "bs_quiz")>>

RECURSIVE AssignmentRows(_, _)
AssignmentRows(rows, cls) ==
    IF rows = <<>> THEN <<>>
    ELSE AssignmentRow(Head(rows), cls) \o AssignmentRows(Tail(rows), cls)

RECURSIVE QuizRows(_, _)
QuizRows(rows, cls) ==
    IF rows = <<>> THEN <<>>
    ELSE QuizRow(Head(rows), cls) \o QuizRows(Tail(rows), cls)

(***************************************************************************)
(* brightspace_scraper.py: the class list.  The environment is             *)
(*   [cardsRaises, cards, apiRaises, apiItems, pageRaises, pageLinks]:     *)
(* the homepage links [raises, href, inner], the OrgUnits [name, id] of    *)
(* the enrollment API (<<>> when it answers null) and the links of the     *)
(* course-listing page.                                                    *)
(***************************************************************************)
BSFullUrl(href) == IF StartsWith(href, "http") THEN href ELSE BS_BASE_URL \o href

RECURSIVE CardClasses(_, _, _)
\* Method 1: the loop over the course cards of the homepage.
CardClasses(links, seen_urls, semester_classes) ==
    IF links = <<>> THEN <<>>
    ELSE LET l == Head(links)
             text == Strip(l.inner)
             full_url == BSFullUrl(l.href)
             skipped == l.raises \/ text = "" \/ l.href = ""
             fresh == ~skipped /\ full_url \notin seen_urls
         IN  (IF fresh /\ (Contains(l.href, "/d2l/home/") \/ Contains(l.href, "/d2l/le/"))
              THEN <<ClassInfo(Strip(SplitLines(text)[1]), BRIGHTSPACE, full_url,
                               _get_short_code(text, semester_classes))>>
              ELSE <<>>)
             \o CardClasses(Tail(links),
                            IF fresh THEN seen_urls \cup {full_url} ELSE seen_urls,
                            semester_classes)

RECURSIVE ApiClasses(_, _)
\* _scrape_classes_via_api: the loop over response["Items"].
ApiClasses(items, semester_classes) ==
    IF items = <<>> THEN <<>>
    ELSE (IF Head(items).name # "" /\ Head(items).id # ""
          THEN <<ClassInfo(Head(items).name, BRIGHTSPACE,
                           BS_BASE_URL \o "/d2l/home/" \o Head(items).id,
                           _get_short_code(Head(items).name, semester_classes))>>
          ELSE <<>>)
         \o ApiClasses(Tail(items), semester_classes)

RECURSIVE PageClasses(_, _, _)
\* _scrape_my_courses_page: the loop over a[href*="/d2l/home/"].
PageClasses(links, seen, semester_classes) ==
    IF links = <<>> THEN <<>>
    ELSE LET l == Head(links)
             text == Strip(l.inner)
             full_url == BSFullUrl(l.href)
             fresh == ~l.raises /\ text # "" /\ full_url \notin seen
         IN  (IF fresh
              THEN <<ClassInfo(Strip(SplitLines(text)[1]), BRIGHTSPACE, full_url,
                               _get_short_code(text, semester_classes))>>
              ELSE <<>>)
             \o PageClasses(Tail(links),
                            IF fresh THEN seen \cup {full_url} ELSE seen,
                            semester_classes)

_scrape_classes_via_api(env, semester_classes) ==
    IF env.apiRaises THEN <<>> ELSE ApiClasses(env.apiItems, semester_classes)

_scrape_my_courses_page(env, semester_classes) ==
    IF env.pageRaises THEN <<>> ELSE PageClasses(env.pageLinks, {}, semester_classes)

\* The three scans of the course list run one after the other whatever the
\* earlier ones found, and their courses are put together.
BS_scrape_class_list_merged(env, semester_classes) ==
    (IF env.cardsRaises THEN <<>> ELSE CardClasses(env.cards, {}, semester_classes))
    \o _scrape_classes_via_api(env, semester_classes)
    \o _scrape_my_courses_page(env, semester_classes)

\* BrightspaceScraper._scrape_class_list(page)
BS_scrape_class_list(env, semester_classes) ==
    LET cards == IF env.cardsRaises THEN <<>>
                 ELSE CardClasses(env.cards, {}, semester_classes)
    IN  IF cards # <<>> THEN cards
        ELSE IF _scrape_classes_via_api(env, semester_classes) # <<>>
             THEN _scrape_classes_via_api(env, semester_classes)
        ELSE _scrape_my_courses_page(env, semester_classes)

(***************************************************************************)
(* brightspace_scraper.py: one class.  The environment is                  *)
(*   [api, folders, rowsRaises, rows, quizRaises, quizRows,                *)
(*    newsRaises, news, listRaises, listItems]:                            *)
(* `api` is what the assignment fetch answers ("raises", "null",           *)
(* "progress" or "dropbox"), `folders` the dropbox folders                 *)
(* [name, due, parsed], `news` the items of the news API's answer          *)
(* (<<>> when it answers null), `listItems` the texts of the news page.    *)
(***************************************************************************)
RECURSIVE FolderItems(_, _)
\* _fetch_assignments_api: the loop over the dropbox folders.
FolderItems(folders, cls) ==
    IF folders = <<>> THEN <<>>
    ELSE LET f == Head(folders)
         IN  (IF f.name # ""
              THEN <<Assignment(f.name, cls.name, BRIGHTSPACE, ASSIGNMENT, NOT_SUBMITTED,
                                IF f.due # "" THEN f.parsed ELSE NoDate,
                                f.name, "bs_api")>>
              ELSE <<>>)
             \o FolderItems(Tail(folders), cls)

_fetch_assignments_api(env, cls) ==
    IF env.api = "dropbox" THEN FolderItems(env.folders, cls) ELSE <<>>

_scrape_quizzes(env, cls) ==
    IF env.quizRaises THEN <<>> ELSE QuizRows(env.quizRows, cls)

\* _scrape_class_assignments without the early return after the API: the
\* listing page and the quiz page are scraped whatever the API gave.
BS_scrape_class_assignments_unchained(env, cls) ==
    IF _extract_course_id(cls.url) = "" THEN <<>>
    ELSE _fetch_assignments_api(env, cls)
         \o (IF env.rowsRaises THEN <<>> ELSE AssignmentRows(env.rows, cls))
         \o _scrape_quizzes(env, cls)

\* BrightspaceScraper._scrape_class_assignments(page, cls)
BS_scrape_class_assignments(env, cls) ==
    IF _extract_course_id(cls.url) = "" THEN <<>>
    ELSE IF _fetch_assignments_api(env, cls) # <<>> THEN _fetch_assignments_api(env, cls)
    ELSE (IF env.rowsRaises THEN <<>> ELSE AssignmentRows(env.rows, cls))
         \o _scrape_quizzes(env, cls)

\* items[:10]
FirstTen(items) == SubSeq(items, 1, IF Len(items) < 10 THEN Len(items) ELSE 10)

\* item.get("Body", {}).get("Text", ""): an item whose "Body" is null raises
\* AttributeError.
NewsItemRaises(n) == n.body_null

RECURSIVE ItemsReached(_)
\* The items the loop over the news API's answer gets through: the loop has
\* no try of its own, the first item that raises ends it.
ItemsReached(news) ==
    IF news = <<>> \/ NewsItemRaises(Head(news)) THEN <<>>
    ELSE <<Head(news)>> \o ItemsReached(Tail(news))

\* The body of that loop.
NewsItem(n, cls) ==
    IF Strip(n.title) # ""
    THEN <<Assignment(Strip(n.title), cls.name, BRIGHTSPACE, ANNOUNCEMENT,
                      ASSIGNED, NoDate, n.title \o "\n" \o n.body, "bs_news_api")>>
    ELSE <<>>

RECURSIVE NewsItems(_, _)
\* _scrape_class_announcements: the loop over the news API's answer.
NewsItems(news, cls) ==
    IF news = <<>> THEN <<>>
    ELSE NewsItem(Head(news), cls) \o NewsItems(Tail(news), cls)

_UI_JUNK == {"show search options", "hide search options", "search in",
             "headlinecontent", "posted in", "search", "filter",
             "sort", "show", "hide", "actions", "select all",
             "news", "announcements", "no items to display"}

RECURSIVE NewsListItems(_, _)
\* _scrape_class_announcements: the loop over the items of the news page.
NewsListItems(items, cls) ==
    IF items = <<>> THEN <<>>
    ELSE LET text == Strip(Head(items).text)
             lines == SolidLines(text)
         IN  (IF \/ Head(items).raises \/ text = "" \/ Len(text) < 8
                 \/ Strip(Lower(lines[1])) \in _UI_JUNK
                 \/ Len(lines[1]) < 5
              THEN <<>>
              ELSE <<Assignment(lines[1], cls.name, BRIGHTSPACE, ANNOUNCEMENT, ASSIGNED,
                                NoDate, Head(items).text, "bs_news_page")>>)
             \o NewsListItems(Tail(items), cls)

\* _scrape_class_announcements(page, cls): the items of the API are
\* returned when its loop ends with some; when the API or an item raises,
\* the news page adds its items to those the loop had appended.
_scrape_class_announcements(env, cls) ==
    LET reached == ItemsReached(FirstTen(env.news))
        aborted == env.newsRaises \/ Len(reached) < Len(FirstTen(env.news))
        api == IF env.newsRaises THEN <<>> ELSE NewsItems(reached, cls)
    IN  IF _extract_course_id(cls.url) = "" THEN <<>>
        ELSE IF api # <<>> /\ ~aborted THEN api
        ELSE api \o (IF env.listRaises THEN <<>>
                     ELSE NewsListItems(FirstTen(env.listItems), cls))

(***************************************************************************)
(* brightspace_scraper.py: the homepage widgets.  The environment is       *)
(*   [raises, widget, calRaises, calendar]: the inner text of the first    *)
(* "Work To Do" element and of the first calendar element ("" when the     *)
(* page has none).                                                         *)
(***************************************************************************)
RECURSIVE WidgetItems(_)
\* The loop of _scrape_work_to_do over the lines of the widget.
WidgetItems(lines) ==
    IF lines = <<>> THEN <<>>
    ELSE (IF Lower(Head(lines)) \in {"work to do", "upcoming", ""} THEN <<>>
          ELSE <<Assignment(Head(lines), "", BRIGHTSPACE, ASSIGNMENT, NOT_SUBMITTED,
                            NoDate, Head(lines), "bs_todo")>>)
         \o WidgetItems(Tail(lines))

RECURSIVE EventItems(_)
\* The loop of _scrape_upcoming_events over the lines of the calendar.
EventItems(lines) ==
    IF lines = <<>> THEN <<>>
    ELSE (IF Lower(Head(lines)) \in {"upcoming events", "calendar", ""} THEN <<>>
          ELSE <<Assignment(Head(lines), "", BRIGHTSPACE, EVENT, UPCOMING,
                            NoDate, Head(lines), "bs_event")>>)
         \o EventItems(Tail(lines))

_scrape_upcoming_events(env) ==
    IF env.calRaises THEN <<>> ELSE EventItems(SolidLines(Strip(env.calendar)))

\* _scrape_work_to_do(page)
_scrape_work_to_do(env) ==
    IF env.raises THEN <<>>
    ELSE WidgetItems(SolidLines(Strip(env.widget))) \o _scrape_upcoming_events(env)

\* scrape_all, lines 129-138: the widget items whose title is not among those
\* already in self.assignments are appended.
MergeWorkToDo(assignments, env) ==
    AppendNew(assignments, _scrape_work_to_do(env), Titles(assignments))

(***************************************************************************)
(* main.py: run().                                                         *)
(*                                                                         *)
(* run() awaits the methods of TDSBAuth.  An await is modelled as          *)
(* transparent: it yields what the awaited method returns, or raises what  *)
(* the method raises.  The bodies of start_browser and close are those of  *)
(* auth.py; the two logins are taken here by their outcome (they return    *)
(* the session or raise) and are modelled step by step in SpecLogin.       *)
(*                                                                         *)
(* The pages the browser shows are the environment: every step draws the   *)
(* page it meets from a small corpus.                                      *)
(***************************************************************************)

\* The most classes a class list of the corpus holds.
MaxClasses == 2

\* The values of SEMESTER_CLASSES run() is started with.
SemesterInputs == {<<"ENG", "GLE">>, <<"ENG">>, <<"gle">>}

Link(href, inner) == [raises |-> FALSE, href |-> href, inner |-> inner, content |-> inner]

\* The course cards a Google Classroom home page may show, in page order.
GCLinks == << Link("/c/abc123", "ENG4U English"),
              Link("/c/def456/sp/1", "E\nGLE Learning"),
              Link("/c/ghi789", "Art club") >>

\* Three links of one course, with texts of 1, 12 and 40 characters.
F_icon == Link("/c/abc123/sp/2", "E")
F_header == Link("/c/abc123/sp/1", "ENG4U Period")
F_sidebar == Link("/c/abc123", "E\nENG4U English Grade 12\nRoom 109/209/30")

GCListEnv(links) ==
    [links |-> links, fallbackRaises |-> FALSE, fallbackLinks |-> <<>>,
     htmlRaises |-> FALSE, htmlMatches |-> <<>>]

\* The class-list pages of the corpus: the first n cards, n <= MaxClasses,
\* a page on which only the HTML pattern finds a course, the three links of
\* one course in three orders, a page on which all three scans would find a
\* course, and a page on which the broader selectors and the HTML pattern
\* would each find one; and three pages with one link each: two lines of
\* which the first is a name, two lines of which the first has two
\* characters, and an icon letter without a second line.
GCListEnvs ==
    {GCListEnv(SubSeq(GCLinks, 1, n)) : n \in 0..(IF MaxClasses < 3 THEN MaxClasses ELSE 3)}
    \cup {[GCListEnv(<<>>) EXCEPT !.fallbackRaises = TRUE,
                                  !.htmlMatches = <<[href |-> "/c/abc123", name |-> " ENG4U "]>>]}
    \cup {GCListEnv(<<F_icon, F_header, F_sidebar>>),
          GCListEnv(<<F_sidebar, F_icon, F_header>>),
          GCListEnv(<<F_header, F_sidebar, F_icon>>)}
    \cup {[GCListEnv(SubSeq(GCLinks, 1, 1))
              EXCEPT !.fallbackLinks = <<Link("/c/ghi789", "Art club")>>,
                     !.htmlMatches = <<[href |-> "/c/def456", name |-> "GLE"]>>],
          [GCListEnv(<<>>)
              EXCEPT !.fallbackLinks = <<Link("/c/abc123", "ENG4U")>>,
                     !.htmlMatches = <<[href |-> "/c/def456", name |-> "GLE"]>>]}
    \cup {GCListEnv(<<Link("/c/abc123", "ENG4U English\nRoom 109")>>),
          GCListEnv(<<Link("/c/def456", "EN\n\nGLE Learning")>>),
          GCListEnv(<<Link("/c/abc123", "E\n ")>>)}

Container(aria, desc, text) ==
    [raises |-> FALSE, aria |-> aria, desc |-> desc, due |-> "", parsed |-> NoDate,
     text |-> text]

K_essay == [Container("Assignment: \"Essay\"", "", "Essay\nDue Jan 15")
              EXCEPT !.due = "Due Jan 15", !.parsed = Naive(1)]
K_turned_in == Container("Quiz: \"Quiz 2\"", "", "Quiz 2\nTurned in")
K_completed == Container("Assignment: \"Lab\"", "", "Lab\nCompleted")
K_blank == Container("", "", "Posted yesterday")
K_posted == Container("", "Ms. Lee posted a new assignment: Reading", "Reading\nMissing")
K_broken == [Container("", "", "") EXCEPT !.raises = TRUE]
K_missing == Container("Assignment: \"Poster\"", "", "Poster\nMissing")
K_late == [Container("Assignment: \"Report\"", "", "Report\nDue Jan 10\nLate")
             EXCEPT !.due = "Due Jan 10", !.parsed = Naive(-1)]

GCClassEnv(containers, html) ==
    [gotoRaises |-> FALSE, tabRaises |-> FALSE, queryRaises |-> FALSE, containers |-> containers,
     htmlRaises |-> FALSE, html |-> html]

\* The class pages of the corpus.
GCClassEnvs ==
    { GCClassEnv(<<K_essay>>, <<>>),
      GCClassEnv(<<K_turned_in, K_completed, K_blank>>, <<>>),
      GCClassEnv(<<K_broken, K_posted>>, <<>>),
      GCClassEnv(<<K_turned_in>>, <<"Essay", " ">>),
      GCClassEnv(<<K_essay, K_missing, K_late>>, <<>>),
      [GCClassEnv(<<>>, <<>>) EXCEPT !.gotoRaises = TRUE] }

GCTodoEnv(raises, body, containers, links) ==
    [raises |-> raises, body |-> body, containers |-> containers, links |-> links]

\* The global to-do pages of the corpus.
GCTodoEnvs ==
    { GCTodoEnv("no", "Nothing on your to-do list", <<K_essay>>, <<>>),
      GCTodoEnv("no", "NOTHING ON YOUR TO-DO LIST", <<>>,
                <<[raises |-> FALSE, aria |-> "Assignment: \"Essay done\""]>>),
      GCTodoEnv("no", "To-do", <<K_essay, K_blank>>, <<>>),
      GCTodoEnv("no", "To-do", <<K_posted, K_broken, K_posted>>, <<>>),
      GCTodoEnv("no", "To-do", <<>>,
                <<[raises |-> FALSE, aria |-> "Assignment: \"Essay done\""]>>),
      GCTodoEnv("no", "To-do", <<K_broken, K_blank>>,
                <<[raises |-> FALSE, aria |-> "Assignment: \"Essay done\""]>>),
      GCTodoEnv("page", "", <<>>, <<>>),
      GCTodoEnv("goto", "", <<>>, <<>>) }

\* The course cards a Brightspace home page may show, in page order.
BSCards == << Link("/d2l/home/101", "ENG4U English\nOpen"),
              Link("/d2l/home/202", "GLE Learning"),
              Link("/d2l/le/303", "Yearbook") >>

BSListEnv(cards, apiItems) ==
    [cardsRaises |-> FALSE, cards |-> cards, apiRaises |-> FALSE, apiItems |-> apiItems,
     pageRaises |-> FALSE, pageLinks |-> <<>>]

\* The home pages of the corpus: the first n cards, n <= MaxClasses, a page
\* without cards whose enrollment API names a course, a page with two
\* links of one course, and three pages on which more than one of the
\* homepage scan, the enrollment API and the course listing page would find
\* a course, or the listing page alone.
BSListEnvs ==
    {BSListEnv(SubSeq(BSCards, 1, n), <<>>) :
        n \in 0..(IF MaxClasses < 3 THEN MaxClasses ELSE 3)}
    \cup {BSListEnv(<<>>, <<[name |-> "ENG4U English", id |-> "101"]>>)}
    \cup {BSListEnv(<<Link("/d2l/home/101", "ENG4U English"),
                      Link("/d2l/le/calendar/101", "ENG4U English")>>, <<>>)}
    \cup {[BSListEnv(SubSeq(BSCards, 1, 1), <<[name |-> "ENG4U English", id |-> "909"]>>)
              EXCEPT !.pageLinks = <<Link("/d2l/home/808", "ENG4U English")>>],
          [BSListEnv(<<>>, <<[name |-> "ENG4U English", id |-> "101"]>>)
              EXCEPT !.pageLinks = <<Link("/d2l/home/808", "ENG4U English")>>],
          [BSListEnv(<<>>, <<>>)
              EXCEPT !.apiRaises = TRUE,
                     !.pageLinks = <<Link("/d2l/home/101", "ENG4U English")>>]}

Row(text) == [raises |-> FALSE, text |-> text, parsed |-> NoDate]

\* A row whose inner_text() raises.
R_stale == [Row("") EXCEPT !.raises = TRUE]

\* An item of the news API's answer: its "Title", the "Text" of its "Body",
\* and whether its "Body" is null.
News(title, body) == [title |-> title, body |-> body, body_null |-> FALSE]

BSClassEnv(api, folders, rows, quizRows, news) ==
    [api |-> api, folders |-> folders, rowsRaises |-> FALSE, rows |-> rows,
     quizRaises |-> FALSE, quizRows |-> quizRows, newsRaises |-> FALSE, news |-> news,
     listRaises |-> FALSE, listItems |-> <<>>]

\* The course pages of the corpus.
BSClassEnvs ==
    { BSClassEnv("dropbox",
                 <<[name |-> "Essay", due |-> "2025-01-15T04:59:00.000Z", parsed |-> Aware(1)]>>,
                 <<>>, <<Row("Quiz 1\nNot started")>>, <<>>),
      BSClassEnv("null", <<>>,
                 <<Row("Name"), R_stale, Row("Essay\nNot Submitted"), Row("Lab\nTurned in")>>,
                 <<Row("Quiz 1\nCompleted")>>, <<>>),
      [BSClassEnv("raises", <<>>, <<Row("Essay\nOverdue")>>, <<>>,
                  <<News("Essay", "Hand it in"), News(" ", ""),
                    [News("Trip", "") EXCEPT !.body_null = TRUE], News("Exam", "Room 12")>>)
          EXCEPT !.listItems = <<R_stale, Row("Field trip on Friday")>>],
      BSClassEnv("null", <<>>, <<Row("Name")>>,
                 <<R_stale, Row("Quiz 2\nNot started"), Row("Quiz 3\nNot Submitted")>>, <<>>),
      [BSClassEnv("progress", <<>>, <<>>, <<>>, <<>>) EXCEPT !.rowsRaises = TRUE,
                                                           !.quizRaises = TRUE] }

\* The homepage widgets of the corpus.
BSTodoEnvs ==
    { [raises |-> FALSE, widget |-> "Work To Do\nEssay", calRaises |-> FALSE,
       calendar |-> ""],
      [raises |-> FALSE, widget |-> "Poster\nPoster", calRaises |-> FALSE,
       calendar |-> "Upcoming events\nExam done"],
      [raises |-> FALSE, widget |-> "", calRaises |-> TRUE, calendar |-> ""],
      [raises |-> TRUE, widget |-> "", calRaises |-> FALSE, calendar |-> ""] }

VARIABLES
    pc,               \* the statement of run() that executes next
    semester_classes, \* run()'s argument
    debug,            \* run()'s argument, handed to TDSBAuth
    capture,          \* what the statement just executed did about screenshots:
                      \* "none", "saved" or "failed"
    _driver,          \* auth._driver: "none", "live", "dead" or "quit"
    _tmp_profile,     \* auth._tmp_profile names a directory that exists
    classes,          \* the scraper's self.classes
    cls_index,        \* the position of `for cls in self.classes`
    assignments,      \* the scraper's self.assignments
    global_todo,      \* what the source's global pass returned
    gc_classes, gc_assignments, bs_classes, bs_assignments, all_assignments,
    gc_state,         \* the Google Classroom part of run(): "pending"; "running"
                      \* once its login has returned; "returned" once its items
                      \* are in all_assignments; "failed" when an Exception left
                      \* its login or scrape; "aborted" when it was interrupted
    bs_state,         \* the same for the Brightspace part
    outcome,          \* "none", "interrupted" (line 372) or "fatal" (line 374)
    shown,            \* "none", "classes" or "all": what the display has printed
    printed,          \* the tables display_assignments has printed, in order:
                      \* [course, rows], rows the items of one table
    close_calls,      \* how often auth.close() was awaited
    raised,           \* an exception left run()
    login,            \* the login under way: "none", "google" or "brightspace"
    lpc,              \* the step of the login that executes next
    page,             \* the page the browser shows
    log,              \* the fills and clicks of the login, in order
    visited,          \* the negotiation states the login has entered
    began_on_destination, \* the first navigation of the login ended on the
                      \* destination's host
    login_result,     \* "none", "returned" or "raised"
    spc,              \* _scroll_to_load_all: "idle" before it is called, "loop"
                      \* in its for statement, "top" before the scroll back to
                      \* the top, "done" once it has returned
    scrolls,          \* the iterations of the for statement begun so far
    height,           \* document.body.scrollHeight
    previous_height,  \* the routine's local of that name
    scroll_y,         \* the window's scroll position, 0 at the top
    grows             \* the page: grows[k] says whether the k-th scroll to the
                      \* bottom makes the page higher

vars == <<pc, semester_classes, debug, capture, _driver, _tmp_profile, classes, cls_index,
          assignments,
          global_todo, gc_classes, gc_assignments, bs_classes, bs_assignments, all_assignments,
          gc_state, bs_state, outcome, shown, printed, close_calls, raised,
          login, lpc, page, log, visited, began_on_destination, login_result,
          spc, scrolls, height, previous_height, scroll_y, grows>>

scroll_vars == <<spc, scrolls, height, previous_height, scroll_y, grows>>
login_vars == <<login, lpc, page, log, visited, began_on_destination, login_result>>
run_vars == <<pc, semester_classes, debug, _driver, _tmp_profile, classes, cls_index, assignments,
              global_todo, gc_classes, gc_assignments, bs_classes, bs_assignments,
              all_assignments, gc_state, bs_state, outcome, shown, printed, close_calls, raised>>
auth_vars == <<_driver, _tmp_profile>>
scraper_vars == <<classes, cls_index, assignments, global_todo>>
gc_vars == <<gc_classes, gc_assignments>>
bs_vars == <<bs_classes, bs_assignments>>

\* TDSBAuth._screenshot, as the statement under execution calls it or not:
\* with the debug flag and a driver the screenshot is saved or the attempt
\* raises inside the method's try; otherwise nothing is captured.
_screenshot(called) ==
    capture' \in (IF called /\ debug /\ _driver # "none" THEN {"saved", "failed"}
                  ELSE {"none"})

\* range(max_scrolls), the default of _scroll_to_load_all.
max_scrolls == 10

\* The pages the routine is run on: every way in which the first
\* max_scrolls + 1 scrolls to the bottom make the page higher or not.
GrowthPatterns == [1..(max_scrolls + 1) -> BOOLEAN]

\* The Brightspace home page of run(): two scrolls load further course
\* tiles, later ones load nothing.
HomeGrowth == [k \in 1..(max_scrolls + 1) |-> k <= 2]

\* The number of iterations _scroll_to_load_all runs on a page: up to the
\* first scroll that leaves the height as it was, and max_scrolls at most.
ScrollsRun(g) ==
    LET stable == {k \in 1..max_scrolls : ~g[k]}
    IN  IF stable = {} THEN max_scrolls ELSE CHOOSE k \in stable : \A j \in stable : k <= j

\* _scroll_to_load_all(page), run from its call to its return.
_scroll_to_load_all ==
    LET n == ScrollsRun(grows)
        grown == Cardinality({k \in 1..n : grows[k]})
    IN  /\ scrolls' = n
        /\ height' = height + grown
        /\ previous_height' = IF grows[n] THEN height + grown - 1 ELSE height + grown
        /\ scroll_y' = 0
        /\ spc' = "done"
        /\ UNCHANGED grows

\* The routine has not been called.
ScrollIdle ==
    /\ spc = "idle" /\ scrolls = 0
    /\ height = 1 /\ previous_height = 0 /\ scroll_y = 0
    /\ grows = HomeGrowth

\* No login is under way.
LoginIdle ==
    /\ login = "none" /\ lpc = "idle"
    /\ page = [url |-> "about:blank", els |-> {}]
    /\ log = <<>> /\ visited = <<>>
    /\ began_on_destination = FALSE /\ login_result = "none"

Init ==
    /\ LoginIdle
    /\ ScrollIdle
    /\ pc = "start_browser"
    /\ semester_classes \in SemesterInputs
    /\ debug = FALSE /\ capture = "none"
    /\ _driver = "none" /\ _tmp_profile = FALSE
    /\ classes = <<>> /\ cls_index = 1 /\ assignments = <<>> /\ global_todo = <<>>
    /\ gc_classes = <<>> /\ gc_assignments = <<>>
    /\ bs_classes = <<>> /\ bs_assignments = <<>>
    /\ all_assignments = <<>>
    /\ gc_state = "pending" /\ bs_state = "pending"
    /\ outcome = "none" /\ shown = "none" /\ printed = <<>> /\ close_calls = 0 /\ raised = FALSE

\* run() without the try statement around its Google Classroom part.
HandlersWithoutGCSource(p) ==
    CASE p = "gc_class" -> <<"gc_course", "run">>
      [] p = "gc_todo" -> <<"gc_todo", "run">>
      [] p = "bs_class" -> <<"bs_course", "bs_source", "run">>
      [] p = "bs_todo" -> <<"bs_todo", "bs_source", "run">>
      [] p \in {"bs_login", "bs_list"} -> <<"bs_source", "run">>
      [] p = "close" -> <<"quit">>
      [] OTHER -> <<"run">>

\* run() without the try statement around its Brightspace part.
HandlersWithoutBSSource(p) ==
    CASE p = "gc_class" -> <<"gc_course", "gc_source", "run">>
      [] p = "gc_todo" -> <<"gc_todo", "gc_source", "run">>
      [] p \in {"gc_login", "gc_list"} -> <<"gc_source", "run">>
      [] p = "bs_class" -> <<"bs_course", "run">>
      [] p = "bs_todo" -> <<"bs_todo", "run">>
      [] p = "close" -> <<"quit">>
      [] OTHER -> <<"run">>

\* close() without the try statement around quit().
HandlersWithoutQuit(p) ==
    CASE p = "gc_class" -> <<"gc_course", "gc_source", "run">>
      [] p = "gc_todo" -> <<"gc_todo", "gc_source", "run">>
      [] p \in {"gc_login", "gc_list"} -> <<"gc_source", "run">>
      [] p = "bs_class" -> <<"bs_course", "bs_source", "run">>
      [] p = "bs_todo" -> <<"bs_todo", "bs_source", "run">>
      [] p \in {"bs_login", "bs_list"} -> <<"bs_source", "run">>
      [] p = "close" -> <<>>
      [] OTHER -> <<"run">>

\* scrape_all without the try statement inside its loop over the classes.
HandlersWithoutCourse(p) ==
    CASE p = "gc_class" -> <<"gc_source", "run">>
      [] p = "gc_todo" -> <<"gc_todo", "gc_source", "run">>
      [] p \in {"gc_login", "gc_list"} -> <<"gc_source", "run">>
      [] p = "bs_class" -> <<"bs_source", "run">>
      [] p = "bs_todo" -> <<"bs_todo", "bs_source", "run">>
      [] p \in {"bs_login", "bs_list"} -> <<"bs_source", "run">>
      [] p = "close" -> <<"quit">>
      [] OTHER -> <<"run">>

\* run() without the try statement around the global to-do pass of Google
\* Classroom.
HandlersWithoutTodo(p) ==
    CASE p = "gc_class" -> <<"gc_course", "gc_source", "run">>
      [] p \in {"gc_login", "gc_list", "gc_todo"} -> <<"gc_source", "run">>
      [] p = "bs_class" -> <<"bs_course", "bs_source", "run">>
      [] p = "bs_todo" -> <<"bs_todo", "bs_source", "run">>
      [] p \in {"bs_login", "bs_list"} -> <<"bs_source", "run">>
      [] p = "close" -> <<"quit">>
      [] OTHER -> <<"run">>

\* The try statements that enclose each statement of run() and of the
\* scrapers' scrape_all, innermost first.  auth.close() runs in the finally
\* clause, outside every handler of run().
Handlers(p) ==
    CASE p = "gc_class" -> <<"gc_course", "gc_source", "run">>
      [] p = "gc_todo" -> <<"gc_todo", "gc_source", "run">>
      [] p \in {"gc_login", "gc_list"} -> <<"gc_source", "run">>
      [] p = "bs_class" -> <<"bs_course", "bs_source", "run">>
      [] p = "bs_todo" -> <<"bs_todo", "bs_source", "run">>
      [] p \in {"bs_login", "bs_list"} -> <<"bs_source", "run">>
      [] p = "close" -> <<"quit">>
      [] OTHER -> <<"run">>

\* The handlers as bare `except:` clauses, which catch KeyboardInterrupt too.
CatchesBare(h, exc) == exc \in {"KeyboardInterrupt", "Exception"}

\* What a try statement catches: run() has `except KeyboardInterrupt` and
\* `except Exception`, every other one `except Exception` alone.
Catches(h, exc) ==
    IF h = "run" THEN exc \in {"KeyboardInterrupt", "Exception"}
    ELSE exc = "Exception"

\* The handler that catches exc raised at p: "none" when it leaves run().
Handler(p, exc) ==
    LET hs == Handlers(p)
        able == {i \in 1..Len(hs) : Catches(hs[i], exc)}
    IN  IF able = {} THEN "none" ELSE hs[CHOOSE i \in able : \A j \in able : i <= j]

\* run() starting its Brightspace part as soon as the Google Classroom
\* login has returned.
FollowingOverlapped(p) ==
    CASE p = "start_browser" -> "gc_login"
      [] p = "gc_login" -> "bs_login"
      [] p = "gc_list" -> "gc_class"
      [] p = "gc_class" -> "gc_todo"
      [] p = "gc_todo" -> "bs_login"
      [] p = "bs_login" -> "bs_list"
      [] p = "bs_list" -> "bs_class"
      [] p = "bs_class" -> "bs_todo"
      [] p = "bs_todo" -> "display"
      [] p = "display" -> "close"
      [] OTHER -> "done"

\* The statement that follows p in run() when p completes.
Following(p) ==
    CASE p = "start_browser" -> "gc_login"
      [] p = "gc_login" -> "gc_list"
      [] p = "gc_list" -> "gc_class"
      [] p = "gc_class" -> "gc_todo"
      [] p = "gc_todo" -> "bs_login"
      [] p = "bs_login" -> "bs_list"
      [] p = "bs_list" -> "bs_class"
      [] p = "bs_class" -> "bs_todo"
      [] p = "bs_todo" -> "display"
      [] p = "display" -> "close"
      [] OTHER -> "done"

\* webdriver.Chrome(...) is tried at most three times in start_browser.
LaunchAttempts == 3

GCRegion == {"gc_login", "gc_list", "gc_class", "gc_todo"}
BSRegion == {"bs_login", "bs_list", "bs_class", "bs_todo"}

\* scrape_all of either scraper: the end of one turn of `for cls in
\* self.classes`, which appends what the turn found and, after the last
\* class, goes on to the statement after the loop.
LoopStep(found) ==
    /\ assignments' = assignments \o found
    /\ UNCHANGED <<classes, global_todo>>
    /\ IF cls_index < Len(classes)
       THEN cls_index' = cls_index + 1 /\ pc' = pc
       ELSE cls_index' = cls_index /\ pc' = Following(pc)

\* GoogleClassroomScraper.scrape_all returns (line 117) and run() binds
\* gc_classes, gc_assignments (line 320).
GCReturn(cs, items) ==
    /\ gc_classes' = cs
    /\ gc_assignments' = items

\* run(), line 332: all_assignments.extend(gc_assignments)
GCExtend(items) ==
    /\ gc_assignments' = items
    /\ all_assignments' = all_assignments \o items
    /\ pc' = Following("gc_todo")
    /\ UNCHANGED <<gc_classes, classes, cls_index, assignments, bs_vars>>

\* BrightspaceScraper.scrape_all returns (line 140); run(), lines 357-359:
\* bs_classes, bs_assignments are bound and all_assignments is extended.
BSExtend(items) ==
    /\ assignments' = items
    /\ bs_classes' = classes
    /\ bs_assignments' = items
    /\ all_assignments' = all_assignments \o items
    /\ pc' = Following("bs_todo")
    /\ UNCHANGED <<classes, cls_index, gc_vars>>

\* What becomes of a source's part of run() when exc is raised in it and
\* handler h catches it.
StateAfterRaise(st, exc, h) ==
    IF exc = "KeyboardInterrupt" THEN "aborted"
    ELSE IF h \in {"gc_course", "bs_course"} THEN st
    ELSE IF h \in {"gc_todo", "bs_todo"} THEN "returned"
    ELSE "failed"

\* An exception of class exc is raised by the statement at pc: control goes
\* to the innermost enclosing handler that catches it.
Raise(exc) ==
    LET h == Handler(pc, exc)
    IN  /\ UNCHANGED <<semester_classes, debug, shown, printed, close_calls>>
        /\ gc_state' = IF pc \in GCRegion THEN StateAfterRaise(gc_state, exc, h)
                       ELSE gc_state
        /\ bs_state' = IF pc \in BSRegion THEN StateAfterRaise(bs_state, exc, h)
                       ELSE bs_state
        /\ outcome' = IF h # "run" THEN outcome
                      ELSE IF exc = "KeyboardInterrupt" THEN "interrupted" ELSE "fatal"
        /\ raised' = (raised \/ h = "none")
        /\ IF h \in {"gc_course", "bs_course"}
             THEN /\ LoopStep(<<>>)
                  /\ IF h = "gc_course" /\ pc' # pc
                     THEN GCReturn(classes, assignments)
                     ELSE UNCHANGED gc_vars
                  /\ UNCHANGED <<bs_vars, all_assignments>>
           ELSE IF h = "gc_todo" THEN GCExtend(gc_assignments) /\ UNCHANGED global_todo
           ELSE IF h = "bs_todo" THEN BSExtend(assignments) /\ UNCHANGED global_todo
           ELSE /\ pc' = IF h = "gc_source" THEN Following("gc_todo")
                         ELSE IF h = "bs_source" THEN Following("bs_todo")
                         ELSE IF h = "run" THEN "close"
                         ELSE "done"
                /\ UNCHANGED <<scraper_vars, gc_vars, bs_vars, all_assignments>>

\* run(), line 307: await auth.start_browser(headless), with the body of
\* TDSBAuth.start_browser: mkdtemp, then up to three launches of Chrome, the
\* last of which lets its WebDriverException out.
StartBrowser ==
    /\ pc = "start_browser"
    /\ UNCHANGED <<login_vars, scroll_vars>>
    /\ capture' = "none"
    /\ \E mkdtemp_ok \in BOOLEAN, launched \in 0..LaunchAttempts :
         IF mkdtemp_ok /\ launched > 0
         THEN /\ _tmp_profile' = TRUE
              /\ _driver' = "live"
              /\ pc' = Following(pc)
              /\ UNCHANGED <<semester_classes, debug, scraper_vars, gc_vars, bs_vars,
                             all_assignments, gc_state, bs_state, outcome, shown, printed,
                             close_calls, raised>>
         ELSE /\ _tmp_profile' = mkdtemp_ok
              /\ _driver' = "none"
              /\ Raise("Exception")

\* run(), line 314: await auth.login_google_classroom().  A login that
\* raises may do so because the browser has died.
LoginGoogle ==
    /\ pc = "gc_login"
    /\ UNCHANGED <<login_vars, scroll_vars>>
    /\ _screenshot(TRUE)
    /\ \E ok \in BOOLEAN, d \in {"live", "dead"} :
         IF ok
         THEN /\ d = "live"
              /\ gc_state' = "running"
              /\ pc' = Following(pc)
              /\ UNCHANGED <<semester_classes, debug, auth_vars, scraper_vars, gc_vars, bs_vars,
                             all_assignments, bs_state, outcome, shown, printed, close_calls, raised>>
         ELSE /\ _driver' = d
              /\ UNCHANGED _tmp_profile
              /\ Raise("Exception")

\* GoogleClassroomScraper.scrape_all, lines 64-103: the class list page is
\* reached (page.goto is outside every try of the method), a screenshot of
\* it is taken whatever the debug flag is (lines 79-86: os.makedirs outside
\* the try, page.screenshot inside it), the classes are read and filtered.
\* Without classes the loop has no turn and the method returns.
GCScrapeClassList ==
    /\ pc = "gc_list"
    /\ UNCHANGED <<login_vars, scroll_vars>>
    /\ \E goto_raises \in BOOLEAN, makedirs_raises \in BOOLEAN, saved \in BOOLEAN,
          env \in GCListEnvs :
         IF goto_raises \/ makedirs_raises
         THEN /\ Raise("Exception") /\ UNCHANGED auth_vars
              /\ capture' = IF goto_raises THEN "none" ELSE "failed"
         ELSE LET found == FilterClasses(GC_scrape_class_list(env, semester_classes),
                                         semester_classes)
              IN  /\ classes' = found
                  /\ cls_index' = 1
                  /\ assignments' = <<>>
                  /\ global_todo' = <<>>
                  /\ IF found = <<>>
                     THEN GCReturn(<<>>, <<>>) /\ pc' = Following(Following(pc))
                     ELSE UNCHANGED gc_vars /\ pc' = Following(pc)
                  /\ capture' = IF saved THEN "saved" ELSE "failed"
                  /\ UNCHANGED <<semester_classes, debug, auth_vars, bs_vars, all_assignments,
                                 gc_state, bs_state, outcome, shown, printed, close_calls, raised>>

\* GoogleClassroomScraper.scrape_all, lines 106-115: one turn of the loop.
\* page.goto(cls.url) in _scrape_class_assignments is outside every try of
\* that method: when it raises, the loop's handler logs it.
GCScrapeClass ==
    /\ pc = "gc_class"
    /\ UNCHANGED <<login_vars, scroll_vars>>
    /\ capture' = "none"
    /\ \E env \in GCClassEnvs :
         IF env.gotoRaises
         THEN Raise("Exception") /\ UNCHANGED auth_vars
         ELSE /\ LoopStep(GC_scrape_class_assignments(env, classes[cls_index]))
              /\ IF pc' # pc THEN GCReturn(classes, assignments')
                 ELSE UNCHANGED gc_vars
              /\ UNCHANGED <<semester_classes, debug, auth_vars, bs_vars, all_assignments,
                             gc_state, bs_state, outcome, shown, printed, close_calls, raised>>

\* run(), lines 323-332: the global to-do pass, its merge, and the extension
\* of all_assignments.
GCGlobalTodo ==
    /\ pc = "gc_todo"
    /\ UNCHANGED <<login_vars, scroll_vars>>
    /\ capture' = "none"
    /\ \E env \in GCTodoEnvs :
         IF env.raises = "page"
         THEN Raise("Exception") /\ UNCHANGED auth_vars
         ELSE /\ global_todo' = scrape_global_todo(env, semester_classes)
              /\ GCExtend(MergeGlobalTodo(gc_assignments, env, semester_classes))
              /\ gc_state' = "returned"
              /\ UNCHANGED <<semester_classes, debug, auth_vars, bs_state, outcome, shown, printed,
                             close_calls, raised>>

\* run(), line 349: await auth.login_brightspace().
LoginBrightspace ==
    /\ pc = "bs_login"
    /\ UNCHANGED <<login_vars, scroll_vars>>
    /\ _screenshot(TRUE)
    /\ \E ok \in BOOLEAN, d \in {"live", "dead"} :
         IF ok
         THEN /\ d = "live"
              /\ bs_state' = "running"
              /\ pc' = Following(pc)
              /\ UNCHANGED <<semester_classes, debug, auth_vars, scraper_vars, gc_vars, bs_vars,
                             all_assignments, gc_state, outcome, shown, printed, close_calls, raised>>
         ELSE /\ _driver' = d
              /\ UNCHANGED _tmp_profile
              /\ Raise("Exception")

\* BrightspaceScraper.scrape_all, lines 87-109: page.goto and the scrolling
\* are outside every try of the method.  The page is scrolled (line 97)
\* before the class list is read.
BSScrapeClassList ==
    /\ pc = "bs_list"
    /\ UNCHANGED login_vars
    /\ capture' = "none"
    /\ \E goto_raises \in BOOLEAN, env \in BSListEnvs :
         IF goto_raises
         THEN Raise("Exception") /\ UNCHANGED <<auth_vars, scroll_vars>>
         ELSE LET found == FilterClasses(BS_scrape_class_list(env, semester_classes),
                                         semester_classes)
              IN  /\ _scroll_to_load_all
                  /\ classes' = found
                  /\ cls_index' = 1
                  /\ assignments' = <<>>
                  /\ global_todo' = <<>>
                  /\ pc' = IF found = <<>> THEN Following(Following(pc)) ELSE Following(pc)
                  /\ UNCHANGED <<semester_classes, debug, auth_vars, gc_vars, bs_vars,
                                 all_assignments, gc_state, bs_state, outcome, shown, printed,
                                 close_calls, raised>>

\* BrightspaceScraper.scrape_all, lines 112-127: one turn of the loop.  Every
\* await of the two methods it calls is inside a try of theirs.
BSScrapeClass ==
    /\ pc = "bs_class"
    /\ UNCHANGED <<login_vars, scroll_vars>>
    /\ capture' = "none"
    /\ \E env \in BSClassEnvs :
         /\ LoopStep(BS_scrape_class_assignments(env, classes[cls_index])
                     \o _scrape_class_announcements(env, classes[cls_index]))
         /\ UNCHANGED <<semester_classes, debug, auth_vars, gc_vars, bs_vars, all_assignments,
                        gc_state, bs_state, outcome, shown, printed, close_calls, raised>>

\* BrightspaceScraper.scrape_all, lines 129-140, and run(), lines 357-359.
BSWorkToDo ==
    /\ pc = "bs_todo"
    /\ UNCHANGED <<login_vars, scroll_vars>>
    /\ capture' = "none"
    /\ \E env \in BSTodoEnvs :
         /\ global_todo' = _scrape_work_to_do(env)
         /\ BSExtend(MergeWorkToDo(assignments, env))
         /\ bs_state' = "returned"
         /\ UNCHANGED <<semester_classes, debug, auth_vars, gc_state, outcome, shown, printed,
                        close_calls, raised>>

(***************************************************************************)
(* main.py: display_assignments.                                           *)
(***************************************************************************)
\* The characters of the course names, in the order of their code points,
\* by which Python compares the characters of two str.
CodePoints ==
    " ()+,-./0123456789:ABCDEFGHIJKLMNOPQRSTUVWXYZ_abcdefghijklmnopqrstuvwxyz"

Ord(c) ==
    LET at == {k \in 1..Len(CodePoints) : SubSeq(CodePoints, k, k) = c}
    IN  IF at = {} THEN 0 ELSE CHOOSE k \in at : TRUE

RECURSIVE StrLessFrom(_, _, _)
StrLessFrom(a, b, i) ==
    IF i > Len(b) THEN FALSE
    ELSE IF i > Len(a) THEN TRUE
    ELSE IF Ord(CharAt(a, i)) # Ord(CharAt(b, i)) THEN Ord(CharAt(a, i)) < Ord(CharAt(b, i))
    ELSE StrLessFrom(a, b, i + 1)

\* a < b for two str
StrLess(a, b) == StrLessFrom(a, b, 1)

\* key = a.course_name or "General / Unknown"
CourseKey(a) == IF a.course_name = "" THEN "General / Unknown" ELSE a.course_name

RECURSIVE SortedKeys(_)
\* sorted(by_course.keys())
SortedKeys(keys) ==
    IF keys = {} THEN <<>>
    ELSE LET least == CHOOSE k \in keys : \A o \in keys \ {k} : StrLess(k, o)
         IN  <<least>> \o SortedKeys(keys \ {least})

RECURSIVE GroupOf(_, _)
\* by_course[key]: the items of the course, in the order of all_assignments.
GroupOf(items, key) ==
    IF items = <<>> THEN <<>>
    ELSE (IF CourseKey(Head(items)) = key THEN <<Head(items)>> ELSE <<>>)
         \o GroupOf(Tail(items), key)

\* Assignment.is_overdue, for a due date it can compare with datetime.now().
is_overdue(a) == a.due_date.has /\ a.due_date.t < 0

\* datetime.max, in days from the moment of the run.
DatetimeMax == 9999

\* The key of the sort within a course.
SortKey(a) ==
    << IF a.status = MISSING THEN 0
       ELSE IF is_overdue(a) THEN 1
       ELSE IF a.due_date.has THEN 2 ELSE 3,
       IF a.due_date.has THEN a.due_date.t ELSE DatetimeMax >>

\* The order of two keys, as Python orders two tuples.
KeyLess(k, l) == k[1] < l[1] \/ (k[1] = l[1] /\ k[2] < l[2])

RECURSIVE SortedGroup(_)
\* assignments.sort(key=...): the sort is stable, an item goes behind the
\* items whose key is not greater than its own.
SortedGroup(items) ==
    IF items = <<>> THEN <<>>
    ELSE LET a == items[Len(items)]
             before == SortedGroup(SubSeq(items, 1, Len(items) - 1))
             k == Cardinality({i \in 1..Len(before) :
                                 ~KeyLess(SortKey(a), SortKey(before[i]))})
         IN  SubSeq(before, 1, k) \o <<a>> \o SubSeq(before, k + 1, Len(before))

\* display_assignments(all_assignments): one table per course, the courses
\* in the order of their names.  The tables that come before the first
\* course with an offset-aware due date are printed; that course raises.
display_assignments(items) ==
    LET keys == SortedKeys({CourseKey(items[i]) : i \in 1..Len(items)})
        bad == {k \in 1..Len(keys) :
                  \E i \in 1..Len(items) :
                     CourseKey(items[i]) = keys[k] /\ items[i].due_date.aware}
        n == IF bad = {} THEN Len(keys) ELSE (CHOOSE k \in bad : \A o \in bad : k <= o) - 1
    IN  [k \in 1..n |-> [course |-> keys[k], rows |-> SortedGroup(GroupOf(items, keys[k]))]]

\* display_assignments and display_summary read is_overdue of every item
\* (the sort key, the due-date styling, the overdue count): comparing an
\* offset-aware due date with datetime.now() raises TypeError.
DisplayRaises(items) ==
    \E i \in 1..Len(items) : items[i].due_date.has /\ items[i].due_date.aware

\* run(), lines 368-370.
Display ==
    /\ pc = "display"
    /\ UNCHANGED <<login_vars, scroll_vars>>
    /\ capture' = "none"
    /\ printed' = display_assignments(all_assignments)
    /\ IF DisplayRaises(all_assignments)
       THEN /\ shown' = "classes"
            /\ LET h == Handler(pc, "Exception")
               IN  /\ outcome' = IF h = "run" THEN "fatal" ELSE outcome
                   /\ raised' = (h # "run")
                   /\ pc' = IF h = "run" THEN "close" ELSE "done"
       ELSE /\ shown' = "all"
            /\ pc' = Following(pc)
            /\ UNCHANGED <<outcome, raised>>
    /\ UNCHANGED <<semester_classes, debug, auth_vars, scraper_vars, gc_vars, bs_vars,
                   all_assignments, gc_state, bs_state, close_calls>>

\* A process-level interruption reaches run() as KeyboardInterrupt, raised
\* by the statement that is executing.
Interruptible ==
    {"start_browser", "gc_login", "gc_list", "gc_class", "gc_todo",
     "bs_login", "bs_list", "bs_class", "bs_todo", "display"}

Interrupt ==
    /\ pc \in Interruptible
    /\ UNCHANGED <<login_vars, scroll_vars>>
    /\ capture' = "none"
    /\ Raise("KeyboardInterrupt")
    /\ UNCHANGED auth_vars

\* run(), lines 378-381: await auth.close(), with the body of TDSBAuth.close:
\* quit() inside try/except Exception, then rmtree(ignore_errors=True),
\* which may leave the directory behind.
Close ==
    /\ pc = "close"
    /\ UNCHANGED <<login_vars, scroll_vars>>
    /\ capture' = "none"
    /\ close_calls' = close_calls + 1
    /\ \E quit_raises \in BOOLEAN, removed \in BOOLEAN :
         /\ quit_raises => _driver # "none"
         /\ IF quit_raises /\ Handler(pc, "Exception") # "quit"
            THEN /\ raised' = TRUE
                 /\ UNCHANGED auth_vars
            ELSE /\ raised' = raised
                 /\ _driver' = IF _driver = "none" \/ quit_raises THEN _driver ELSE "quit"
                 /\ _tmp_profile' = (_tmp_profile /\ ~removed)
    /\ pc' = "done"
    /\ UNCHANGED <<semester_classes, debug, scraper_vars, gc_vars, bs_vars, all_assignments,
                   gc_state, bs_state, outcome, shown, printed>>

Next ==
    \/ StartBrowser
    \/ LoginGoogle
    \/ GCScrapeClassList
    \/ GCScrapeClass
    \/ GCGlobalTodo
    \/ LoginBrightspace
    \/ BSScrapeClassList
    \/ BSScrapeClass
    \/ BSWorkToDo
    \/ Display
    \/ Interrupt
    \/ Close

Spec == Init /\ [][Next]_vars

(***************************************************************************)
(* auth.py: the two logins.                                                *)
(*                                                                         *)
(* A page of the browser is [url, els]: its address and the set of the     *)
(* selectors and texts that match an element visible on it.  A text match  *)
(* of _find_by_text is written "tag:text".  What the browser shows after a *)
(* navigation, a click or a wait is the environment's choice among the     *)
(* pages of the corpus.                                                    *)
(***************************************************************************)
GOOGLE_LOGIN_URL ==
    "https://accounts.google.com/ServiceLogin?continue=https://classroom.google.com/u/0/h&passive=true"
BRIGHTSPACE_URL == "https://tdsb.elearningontario.ca/d2l/home"

Page(url, els) == [url |-> url, els |-> els]

LoginPages ==
    { Page(GOOGLE_LOGIN_URL, {"input[type=email]", "#identifierNext"}),
      Page("https://accounts.google.com/AccountChooser", {"div:Use another account"}),
      Page("https://login.microsoftonline.com/common/oauth2/authorize",
           {"input[name=loginfmt]", "#idSIButton9"}),
      Page("https://login.microsoftonline.com/common/login",
           {"input[name=passwd]", "input[type=password]", "#idSIButton9"}),
      Page("https://login.microsoftonline.com/common/reprocess",
           {"AADSTS", "a:Sign out"}),
      Page("https://login.microsoftonline.com/common/reprocess", {"AADSTS"}),
      Page("https://classroom.google.com/u/0/h", {}),
      Page("https://classroom.google.com/u/0/h",
           {"div:Sign in", "input[type=email]"}),
      Page("https://tdsb.elearningontario.ca/d2l/login", {"a:Staff And Students Login"}),
      Page("https://tdsb.elearningontario.ca/d2l/login", {}),
      Page(BRIGHTSPACE_URL, {"button:Got It"}),
      Page(BRIGHTSPACE_URL, {"a:Staff"}) }

email_selectors == <<"input[type=email]", "input#identifierId", "input[name=identifier]">>
next_selectors == <<"#identifierNext", "input[type=submit]", "button[type=submit]",
                    "button:Next">>
account_texts == <<"div:Use another account", "button:Use another account",
                   "div:Sign in", "button:Sign in">>
username_selectors == <<"input[name=loginfmt]", "input[name=UserName]", "input[name=login]",
                        "input[type=email]">>
password_selectors == <<"input[name=passwd]", "input[name=Password]",
                        "input[name=password]", "input[type=password]">>
stay_selectors == <<"#idSIButton9", "input[type=submit][value=Yes]", "button:Yes">>
recovery_texts == <<"a:Sign in with a different account", "a:sign in with another account",
                    "a:Use a different account", "a:Sign out and sign in", "a:Sign out">>
landing_texts == <<"a:Staff And Students Login", "button:Staff And Students Login",
                   "a:Staff and Students", "button:Staff and Students",
                   "a:Staff", "button:Staff">>
warning_texts == <<"button:Got It", "a:Got It", "button:Got it", "a:Got it">>

\* An element found by a text also matches every shorter text it contains.
Matches(p, sel) ==
    \E e \in p.els : \/ e = sel
                     \/ /\ Contains(sel, ":") /\ Contains(e, ":")
                        /\ SubSeq(e, 1, RFind(e, ":")) = SubSeq(sel, 1, RFind(sel, ":"))
                        /\ Contains(SubSeq(e, RFind(e, ":") + 1, Len(e)),
                                    SubSeq(sel, RFind(sel, ":") + 1, Len(sel)))

\* The first selector or text of the list that matches a visible element,
\* "" when none does: the loops over _find_visible, _find_clickable and
\* _find_by_text.
FirstFound(p, selectors) ==
    LET hits == {i \in 1..Len(selectors) : Matches(p, selectors[i])}
    IN  IF hits = {} THEN "" ELSE selectors[CHOOSE i \in hits : \A j \in hits : i <= j]

\* "classroom.google.com" in url, the test of _wait_for_google_classroom.
OnClassroom(p) == Contains(p.url, "classroom.google.com")

\* login_brightspace, lines 643-646: already_on_bs.
already_on_bs(p) == Contains(p.url, "elearningontario.ca") /\ Contains(p.url, "/d2l/")

\* _handle_entra_login: the destination test of its race.
RaceDestination(p) ==
    Contains(p.url, "elearningontario") \/ Contains(p.url, "classroom.google")

Fill(sel, what) == [act |-> "fill", target |-> sel, value |-> what]
Click(sel) == [act |-> "click", target |-> sel, value |-> ""]

\* The login ends: it returns the driver, or an exception leaves it.
LoginEnds(how) ==
    /\ lpc' = "ended"
    /\ login_result' = how

\* login_google_classroom, lines 190-198: the logout navigation, inside a
\* try.
GLogout ==
    /\ login = "google" /\ lpc = "g_logout"
    /\ page' \in LoginPages
    /\ lpc' = "g_navigate"
    /\ _screenshot(FALSE)
    /\ UNCHANGED <<run_vars, scroll_vars, login, log, visited, began_on_destination, login_result>>

\* login_google_classroom, lines 200-204: driver.get(GOOGLE_LOGIN_URL),
\* outside every try: an exception of the driver leaves the login.
GNavigate ==
    /\ login = "google" /\ lpc = "g_navigate"
    /\ \E ok \in BOOLEAN, p \in LoginPages :
         IF ok
         THEN /\ page' = p
              /\ began_on_destination' = OnClassroom(p)
              /\ lpc' = "g_email"
              /\ _screenshot(TRUE)
              /\ UNCHANGED login_result
         ELSE /\ LoginEnds("raised")
              /\ _screenshot(FALSE)
              /\ UNCHANGED <<page, began_on_destination>>
    /\ UNCHANGED <<run_vars, scroll_vars, login, log, visited>>

\* _handle_google_sign_in, lines 219-269: the email entry, with its one
\* retry after a click on "Use another account" or "Sign in".  Without an
\* email field the handler returns, and the login goes on with the Entra
\* handler.
GEmailEntry ==
    /\ login = "google" /\ lpc = "g_email"
    /\ visited' = Append(visited, "EmailEntry")
    /\ LET sel == FirstFound(page, email_selectors)
           other == FirstFound(page, account_texts)
       IN  IF sel # ""
           THEN /\ log' = Append(log, Fill(sel, "username"))
                /\ lpc' = "g_next"
                /\ UNCHANGED page
           ELSE \E p \in LoginPages :
                  LET after == IF other # "" THEN p ELSE page
                      clicked == IF other # "" THEN Append(log, Click(other)) ELSE log
                      again == FirstFound(after, email_selectors)
                  IN  /\ other = "" => p = page
                      /\ page' = after
                      /\ log' = IF again # "" THEN Append(clicked, Fill(again, "username"))
                                ELSE clicked
                      /\ lpc' = IF again # "" THEN "g_next" ELSE "g_entra"
    /\ _screenshot(TRUE)
    /\ UNCHANGED <<run_vars, scroll_vars, login, began_on_destination, login_result>>

\* _handle_google_sign_in, lines 271-310: the click on Next and the wait
\* for the redirect to the broker, which succeeds or times out.
GNext ==
    /\ login = "google" /\ lpc = "g_next"
    /\ visited' = Append(visited, "BrokerRedirectWait")
    /\ LET sel == FirstFound(page, next_selectors)
       IN  log' = IF sel # "" THEN Append(log, Click(sel)) ELSE log
    /\ page' \in LoginPages
    /\ lpc' = "g_entra"
    /\ _screenshot(TRUE)
    /\ UNCHANGED <<run_vars, scroll_vars, login, began_on_destination, login_result>>

\* The wrong-account check as a loop: after a recovery the page is checked
\* again, for as long as it shows the error.
GWrongAccountLooping ==
    /\ login = "google" /\ lpc = "g_entra"
    /\ IF "AADSTS" \in page.els
       THEN /\ visited' = Append(visited, "WrongAccountRecovery")
            /\ LET link == FirstFound(page, recovery_texts)
               IN  /\ log' = IF link # "" THEN Append(log, Click(link)) ELSE log
                   /\ page' \in LoginPages
                   /\ lpc' = "g_entra"
       ELSE /\ lpc' = "g_username"
            /\ UNCHANGED <<visited, log, page>>
    /\ _screenshot(TRUE)
    /\ UNCHANGED <<run_vars, scroll_vars, login, began_on_destination, login_result>>

\* _handle_entra_login_google, line 327, and _handle_entra_wrong_account_error:
\* on an AADSTS page a recovery link is clicked, or the logout address is
\* navigated to; an exception of that navigation ends the Entra handler.
GWrongAccount ==
    /\ login = "google" /\ lpc = "g_entra"
    /\ IF "AADSTS" \in page.els
       THEN /\ visited' = Append(visited, "WrongAccountRecovery")
            /\ LET link == FirstFound(page, recovery_texts)
               IN  \E ok \in BOOLEAN, p \in LoginPages :
                     /\ link # "" => ok
                     /\ log' = IF link # "" THEN Append(log, Click(link)) ELSE log
                     /\ page' = IF ok THEN p ELSE page
                     /\ ~ok => p = page
                     /\ lpc' = IF ok THEN "g_username" ELSE "g_wait"
       ELSE /\ lpc' = "g_username"
            /\ UNCHANGED <<visited, log, page>>
    /\ _screenshot(TRUE)
    /\ UNCHANGED <<run_vars, scroll_vars, login, began_on_destination, login_result>>

\* The broker's username entry with a wait that has no timeout: while no
\* username field is visible the login stays where it is.
GUsernameUnbounded ==
    /\ login = "google" /\ lpc = "g_username"
    /\ LET sel == FirstFound(page, username_selectors)
           btn == FirstFound(page, <<"#idSIButton9">>)
       IN  IF sel = ""
           THEN UNCHANGED <<visited, log, page, lpc>>
           ELSE /\ visited' = Append(visited, "BrokerUsernameEntry")
                /\ log' = Append(log, Fill(sel, "username"))
                          \o (IF btn # "" THEN <<Click(btn)>> ELSE <<>>)
                /\ page' \in LoginPages
                /\ lpc' = "g_password"
    /\ _screenshot(TRUE)
    /\ UNCHANGED <<run_vars, scroll_vars, login, began_on_destination, login_result>>

\* The broker's username entry that goes on to the password entry when it
\* has found no username field.
GUsernameSkipped ==
    /\ login = "google" /\ lpc = "g_username"
    /\ visited' = Append(visited, "BrokerUsernameEntry")
    /\ LET sel == FirstFound(page, username_selectors)
           btn == FirstFound(page, <<"#idSIButton9">>)
       IN  IF sel = ""
           THEN lpc' = "g_password" /\ UNCHANGED <<log, page>>
           ELSE /\ log' = Append(log, Fill(sel, "username"))
                          \o (IF btn # "" THEN <<Click(btn)>> ELSE <<>>)
                /\ page' \in LoginPages
                /\ lpc' = "g_password"
    /\ _screenshot(TRUE)
    /\ UNCHANGED <<run_vars, scroll_vars, login, began_on_destination, login_result>>

\* _handle_entra_login_google, lines 329-364: the broker's username entry.
GUsername ==
    /\ login = "google" /\ lpc = "g_username"
    /\ visited' = Append(visited, "BrokerUsernameEntry")
    /\ LET sel == FirstFound(page, username_selectors)
           btn == FirstFound(page, <<"#idSIButton9">>)
       IN  IF sel = ""
           THEN lpc' = "g_wait" /\ UNCHANGED <<log, page>>
           ELSE /\ log' = Append(log, Fill(sel, "username"))
                          \o (IF btn # "" THEN <<Click(btn)>> ELSE <<>>)
                /\ page' \in LoginPages
                /\ lpc' = "g_password"
    /\ _screenshot(TRUE)
    /\ UNCHANGED <<run_vars, scroll_vars, login, began_on_destination, login_result>>

\* The broker's password entry followed by the username entry: the two
\* entries in the wrong order.
GPasswordFirst ==
    /\ login = "google" /\ lpc = "g_password"
    /\ visited' = Append(visited, "BrokerPasswordEntry")
    /\ LET sel == FirstFound(page, password_selectors)
       IN  IF sel = ""
           THEN lpc' = "g_wait" /\ UNCHANGED <<log, page>>
           ELSE /\ log' = Append(log, Fill(sel, "password"))
                /\ page' \in LoginPages
                /\ lpc' = IF Len(visited) < 6 THEN "g_username" ELSE "g_stay"
    /\ _screenshot(TRUE)
    /\ UNCHANGED <<run_vars, scroll_vars, login, began_on_destination, login_result>>

\* _handle_entra_login_google, lines 366-398: the broker's password entry.
GPassword ==
    /\ login = "google" /\ lpc = "g_password"
    /\ visited' = Append(visited, "BrokerPasswordEntry")
    /\ LET sel == FirstFound(page, password_selectors)
           btn == FirstFound(page, <<"#idSIButton9">>)
       IN  IF sel = ""
           THEN lpc' = "g_wait" /\ UNCHANGED <<log, page>>
           ELSE /\ log' = Append(log, Fill(sel, "password"))
                          \o (IF btn # "" THEN <<Click(btn)>> ELSE <<>>)
                /\ page' \in LoginPages
                /\ lpc' = "g_stay"
    /\ _screenshot(TRUE)
    /\ UNCHANGED <<run_vars, scroll_vars, login, began_on_destination, login_result>>

\* The prompt as a required state: without its button the login ends with
\* an exception.
GStaySignedInRequired ==
    /\ login = "google" /\ lpc = "g_stay"
    /\ visited' = Append(visited, "StaySignedInPrompt")
    /\ LET btn == FirstFound(page, stay_selectors)
       IN  IF btn = ""
           THEN LoginEnds("raised") /\ UNCHANGED <<log, page>>
           ELSE /\ log' = Append(log, Click(btn)) /\ page' \in LoginPages
                /\ lpc' = "g_wait" /\ UNCHANGED login_result
    /\ _screenshot(FirstFound(page, stay_selectors) # "")
    /\ UNCHANGED <<run_vars, scroll_vars, login, began_on_destination>>

\* _handle_stay_signed_in, called at line 401: the optional prompt.
GStaySignedIn ==
    /\ login = "google" /\ lpc = "g_stay"
    /\ visited' = Append(visited, "StaySignedInPrompt")
    /\ LET btn == FirstFound(page, stay_selectors)
       IN  IF btn = "" THEN UNCHANGED <<log, page>>
           ELSE log' = Append(log, Click(btn)) /\ page' \in LoginPages
    /\ lpc' = "g_wait"
    /\ _screenshot(FirstFound(page, stay_selectors) # "")
    /\ UNCHANGED <<run_vars, scroll_vars, login, began_on_destination, login_result>>

\* _wait_for_google_classroom and the return of login_google_classroom: the
\* wait for the destination address succeeds or times out.
GWaitForClassroom ==
    /\ login = "google" /\ lpc = "g_wait"
    /\ visited' = Append(visited, "Destination")
    /\ page' \in LoginPages
    /\ LoginEnds("returned")
    /\ _screenshot(TRUE)
    /\ UNCHANGED <<run_vars, scroll_vars, login, log, began_on_destination>>

\* login_brightspace, lines 633-637: driver.get(BRIGHTSPACE_URL), outside
\* every try.
BNavigate ==
    /\ login = "brightspace" /\ lpc = "b_navigate"
    /\ \E ok \in BOOLEAN, p \in LoginPages :
         IF ok
         THEN /\ page' = p
              /\ began_on_destination' = Contains(p.url, "elearningontario.ca")
              /\ lpc' = "b_landing"
              /\ _screenshot(TRUE)
              /\ UNCHANGED login_result
         ELSE /\ LoginEnds("raised")
              /\ _screenshot(FALSE)
              /\ UNCHANGED <<page, began_on_destination>>
    /\ UNCHANGED <<run_vars, scroll_vars, login, log, visited>>

\* _handle_brightspace_landing, called at line 640 before the address is
\* looked at: the first link or button holding one of the login texts is
\* clicked, and the redirect to the broker is waited for (lines 696-711).
BLanding ==
    /\ login = "brightspace" /\ lpc = "b_landing"
    /\ LET btn == FirstFound(page, landing_texts)
       IN  IF btn = "" THEN UNCHANGED <<log, page, visited>>
           ELSE /\ log' = Append(log, Click(btn))
                /\ visited' = Append(visited, "BrokerRedirectWait")
                /\ page' \in LoginPages
    /\ lpc' = "b_check"
    /\ _screenshot(TRUE)
    /\ UNCHANGED <<run_vars, scroll_vars, login, began_on_destination, login_result>>

\* login_brightspace, lines 643-650: the Entra handler is skipped when the
\* address is already Brightspace's.
BCheck ==
    /\ login = "brightspace" /\ lpc = "b_check"
    /\ lpc' = IF already_on_bs(page) THEN "b_wait" ELSE "b_username"
    /\ _screenshot(FALSE)
    /\ UNCHANGED <<run_vars, scroll_vars, login, page, log, visited, began_on_destination,
                   login_result>>

\* _handle_entra_login, lines 459-532: the race of the username field
\* against the destination, then the username entry.  `p` is the page the
\* wait ends on.
BUsername ==
    /\ login = "brightspace" /\ lpc = "b_username"
    /\ visited' = Append(visited, "BrokerUsernameEntry")
    /\ \E p \in LoginPages :
         LET raced == Matches(p, "input[name=loginfmt]") \/ RaceDestination(p)
             sel == IF raced THEN FirstFound(p, <<"input[name=loginfmt]">>)
                    ELSE FirstFound(p, SubSeq(username_selectors, 2, 4))
             btn == FirstFound(p, <<"#idSIButton9">>)
         IN  IF (raced /\ RaceDestination(p))
                \/ (~raced /\ Contains(p.url, "elearningontario"))
                \/ sel = ""
             THEN /\ page' = p
                  /\ lpc' = "b_wait"
                  /\ UNCHANGED log
             ELSE /\ log' = Append(log, Fill(sel, "username"))
                            \o (IF btn # "" THEN <<Click(btn)>> ELSE <<>>)
                  /\ page' \in LoginPages
                  /\ lpc' = "b_password"
    /\ _screenshot(TRUE)
    /\ UNCHANGED <<run_vars, scroll_vars, login, began_on_destination, login_result>>

\* The broker's password entry with a lookup that raises when no selector
\* matches, outside the handler's try.
BPasswordRaising ==
    /\ login = "brightspace" /\ lpc = "b_password"
    /\ visited' = Append(visited, "BrokerPasswordEntry")
    /\ LET sel == FirstFound(page, password_selectors)
           btn == FirstFound(page, <<"#idSIButton9">>)
       IN  IF sel = ""
           THEN LoginEnds("raised") /\ UNCHANGED <<log, page>>
           ELSE /\ log' = Append(log, Fill(sel, "password"))
                          \o (IF btn # "" THEN <<Click(btn)>> ELSE <<>>)
                /\ page' \in LoginPages
                /\ lpc' = "b_stay"
                /\ UNCHANGED login_result
    /\ _screenshot(TRUE)
    /\ UNCHANGED <<run_vars, scroll_vars, login, began_on_destination>>

\* _handle_entra_login, lines 534-566: the broker's password entry.
BPassword ==
    /\ login = "brightspace" /\ lpc = "b_password"
    /\ visited' = Append(visited, "BrokerPasswordEntry")
    /\ LET sel == FirstFound(page, password_selectors)
           btn == FirstFound(page, <<"#idSIButton9">>)
       IN  IF sel = ""
           THEN lpc' = "b_wait" /\ UNCHANGED <<log, page>>
           ELSE /\ log' = Append(log, Fill(sel, "password"))
                          \o (IF btn # "" THEN <<Click(btn)>> ELSE <<>>)
                /\ page' \in LoginPages
                /\ lpc' = "b_stay"
    /\ _screenshot(TRUE)
    /\ UNCHANGED <<run_vars, scroll_vars, login, began_on_destination, login_result>>

\* _handle_stay_signed_in, called at line 569.
BStaySignedIn ==
    /\ login = "brightspace" /\ lpc = "b_stay"
    /\ visited' = Append(visited, "StaySignedInPrompt")
    /\ LET btn == FirstFound(page, stay_selectors)
       IN  IF btn = "" THEN UNCHANGED <<log, page>>
           ELSE log' = Append(log, Click(btn)) /\ page' \in LoginPages
    /\ lpc' = "b_wait"
    /\ _screenshot(FirstFound(page, stay_selectors) # "")
    /\ UNCHANGED <<run_vars, scroll_vars, login, began_on_destination, login_result>>

\* _wait_for_brightspace and the return of login_brightspace: the wait for
\* the destination address ends on page `p`; when it has not timed out the
\* "Got It" dialog is dismissed if it is there.
BWaitForBrightspace ==
    /\ login = "brightspace" /\ lpc = "b_wait"
    /\ visited' = Append(visited, "Destination")
    /\ \E p \in LoginPages :
         LET btn == FirstFound(p, warning_texts)
         IN  /\ Contains(page.url, "elearningontario.ca") => p = page
             /\ page' = p
             /\ log' = IF Contains(p.url, "elearningontario.ca") /\ btn # ""
                       THEN Append(log, Click(btn)) ELSE log
    /\ LoginEnds("returned")
    /\ _screenshot(TRUE)
    /\ UNCHANGED <<run_vars, scroll_vars, login, began_on_destination>>

\* The state in which one of the two logins is about to begin, on any page.
InitLogin ==
    /\ ScrollIdle
    /\ login \in {"google", "brightspace"}
    /\ lpc = IF login = "google" THEN "g_logout" ELSE "b_navigate"
    /\ page \in LoginPages
    /\ log = <<>> /\ visited = <<>>
    /\ began_on_destination = FALSE /\ login_result = "none"
    /\ pc = "start_browser"
    /\ semester_classes = DEFAULT_SEMESTER_CLASSES
    /\ debug \in BOOLEAN /\ capture = "none"
    /\ _driver = "live" /\ _tmp_profile = TRUE
    /\ classes = <<>> /\ cls_index = 1 /\ assignments = <<>> /\ global_todo = <<>>
    /\ gc_classes = <<>> /\ gc_assignments = <<>>
    /\ bs_classes = <<>> /\ bs_assignments = <<>>
    /\ all_assignments = <<>>
    /\ gc_state = "pending" /\ bs_state = "pending"
    /\ outcome = "none" /\ shown = "none" /\ printed = <<>> /\ close_calls = 0 /\ raised = FALSE

NextLogin ==
    \/ GLogout
    \/ GNavigate
    \/ GEmailEntry
    \/ GNext
    \/ GWrongAccount
    \/ GUsername
    \/ GPassword
    \/ GStaySignedIn
    \/ GWaitForClassroom
    \/ BNavigate
    \/ BLanding
    \/ BCheck
    \/ BUsername
    \/ BPassword
    \/ BStaySignedIn
    \/ BWaitForBrightspace

SpecLogin == InitLogin /\ [][NextLogin]_vars

(***************************************************************************)
(* _scroll_to_load_all, statement by statement.  The routine of            *)
(* brightspace_scraper.py (lines 72-83) and that of                        *)
(* google_classroom_scraper.py (lines 119-130) differ in the length of     *)
(* the wait after each scroll only.                                        *)
(***************************************************************************)
InitScroll ==
    /\ LoginIdle
    /\ spc = "loop" /\ scrolls = 0
    /\ height = 1 /\ previous_height = 0
    /\ scroll_y \in {0, 1}
    /\ grows \in GrowthPatterns
    /\ pc = "bs_list"
    /\ semester_classes = DEFAULT_SEMESTER_CLASSES
    /\ debug = FALSE /\ capture = "none"
    /\ _driver = "live" /\ _tmp_profile = TRUE
    /\ classes = <<>> /\ cls_index = 1 /\ assignments = <<>> /\ global_todo = <<>>
    /\ gc_classes = <<>> /\ gc_assignments = <<>>
    /\ bs_classes = <<>> /\ bs_assignments = <<>>
    /\ all_assignments = <<>>
    /\ gc_state = "returned" /\ bs_state = "running"
    /\ outcome = "none" /\ shown = "none" /\ printed = <<>> /\ close_calls = 0 /\ raised = FALSE

\* One iteration of the while statement that would scroll until the height
\* no longer changes, whatever the number of scrolls.
ScrollIterationUnbounded ==
    /\ spc = "loop"
    /\ scrolls < Len(grows)
    /\ previous_height' = height
    /\ scroll_y' = height
    /\ height' = IF grows[scrolls + 1] THEN height + 1 ELSE height
    /\ scrolls' = scrolls + 1
    /\ spc' = IF height' = previous_height' THEN "top" ELSE "loop"
    /\ UNCHANGED <<grows, run_vars, capture, login_vars>>

\* Lines 74-80: one iteration of `for _ in range(max_scrolls)`.  The height
\* is read, the window is scrolled to the bottom, the height is read again;
\* the loop is left when the two are equal, or when the range is exhausted.
ScrollIteration ==
    /\ spc = "loop"
    /\ scrolls < max_scrolls
    /\ previous_height' = height
    /\ scroll_y' = height
    /\ height' = IF grows[scrolls + 1] THEN height + 1 ELSE height
    /\ scrolls' = scrolls + 1
    /\ spc' = IF height' = previous_height' \/ scrolls' = max_scrolls THEN "top" ELSE "loop"
    /\ UNCHANGED <<grows, run_vars, capture, login_vars>>

\* Lines 81-83: window.scrollTo(0, 0), and the return.
ScrollToTop ==
    /\ spc = "top"
    /\ scroll_y' = 0
    /\ spc' = "done"
    /\ UNCHANGED <<scrolls, height, previous_height, grows, run_vars, capture, login_vars>>

NextScroll ==
    \/ ScrollIteration
    \/ ScrollToTop

SpecScroll == InitScroll /\ [][NextScroll]_vars

\* The routine is not suspended for ever: each of its awaits returns.
FairSpecScroll == SpecScroll /\ WF_vars(NextScroll)

(***************************************************************************)
(* The properties.                                                         *)
(***************************************************************************)
CompletionKeywords == {"submitted", "completed", "turned in", "done"}

HasCompletionKeyword(text) == \E w \in CompletionKeywords : Contains(Lower(text), w)

CountTitle(items, t) == Cardinality({i \in 1..Len(items) : items[i].title = t})

\* C1: no item of the final collection was built from a fragment whose text
\* holds one of the completion keywords "submitted", "completed",
\* "turned in", "done", whichever source and extraction path built it.
C1_CompletedAbsent ==
    \A i \in 1..Len(all_assignments) : ~HasCompletionKeyword(all_assignments[i].raw)

\* The stream container "Lab / Completed" of a Google Classroom class page
\* has become an item of the collection handed to the display.
C1_CompletedShown ==
    /\ pc = "display"
    /\ \E i \in 1..Len(all_assignments) :
          /\ all_assignments[i].via = "gc_stream"
          /\ all_assignments[i].raw = "Lab\nCompleted"

\* C2: every item collected, per course, by a global pass, or in the final
\* collection, has a non-empty title; a fragment that yields no title
\* yields no item.
C2_TitlesNonEmpty ==
    \A items \in {assignments, global_todo, gc_assignments, bs_assignments, all_assignments} :
       \A i \in 1..Len(items) : items[i].title # ""

\* A class page holding a container without title ("Posted yesterday") next
\* to the container of "Lab" was scraped: "Lab" alone came out of it.
C2_TitlelessDropped ==
    /\ pc = "gc_todo"
    /\ Len(classes) = 1
    /\ Len(gc_assignments) = 1
    /\ gc_assignments[1].title = "Lab"

\* C3: for each source, when the global pass yields an item whose title is
\* that of an item the per-course extraction has collected, the source's
\* aggregate holds exactly one item with that title.
C3_GlobalDuplicateOnce ==
    [][ /\ (pc = "gc_todo" /\ gc_state' = "returned")
           => \A t \in Titles(global_todo') \cap Titles(gc_assignments) :
                 CountTitle(gc_assignments', t) = 1
        /\ (pc = "bs_todo" /\ bs_state' = "returned")
           => \A t \in Titles(global_todo') \cap Titles(assignments) :
                 CountTitle(bs_assignments', t) = 1 ]_vars

\* Two Google Classroom classes each list "Essay", the global to-do lists
\* "Essay" too, and the source's aggregate holds the title twice.
C3_TwoCoursesOneTitle ==
    /\ pc = "bs_login"
    /\ gc_state = "returned"
    /\ "Essay" \in Titles(global_todo)
    /\ CountTitle(gc_assignments, "Essay") = 2

\* C4: no two items of the final collection handed to the display share a
\* title.
C4_TitlesUnique ==
    pc = "display" =>
       \A i, j \in 1..Len(all_assignments) :
          all_assignments[i].title = all_assignments[j].title => i = j

\* Both sources have returned, and the collection handed to the display
\* holds "Essay" once from Google Classroom and once from Brightspace.
C4_SameTitleBothSources ==
    /\ pc = "display"
    /\ CountTitle(gc_assignments, "Essay") = 1
    /\ CountTitle(bs_assignments, "Essay") = 1
    /\ CountTitle(all_assignments, "Essay") = 2

NothingExtracted ==
    /\ gc_state = "failed" \/ (gc_state = "returned" /\ gc_assignments = <<>>)
    /\ bs_state = "failed" \/ (bs_state = "returned" /\ bs_assignments = <<>>)

C9_SourcesSequential ==
    /\ (pc \in BSRegion \/ bs_state # "pending") => gc_state \in {"returned", "failed"}
    /\ pc \in GCRegion => bs_state = "pending"
    /\ ~(gc_state = "running" /\ bs_state = "running")

\* The Brightspace classes are being scraped after the Google Classroom part
\* has returned its items.
C9_BrightspaceAfterGoogle ==
    /\ pc = "bs_class"
    /\ bs_state = "running"
    /\ gc_state = "returned"
    /\ global_todo = <<>>
    /\ all_assignments # <<>>

\* An interaction with a form of the login: a fill, or a click.
Interacted == log # <<>>

FieldEntryStates == {"EmailEntry", "BrokerUsernameEntry", "BrokerPasswordEntry"}

VisitedFieldEntry == \E i \in 1..Len(visited) : visited[i] \in FieldEntryStates

\* C10: in both logins, when the first navigation leaves the session on the
\* destination's host, the login fills and clicks nothing and enters none
\* of the field-entry states.
C10_ShortCircuit ==
    began_on_destination => (~Interacted /\ ~VisitedFieldEntry)

\* The Google login began on classroom.google.com and has typed the account
\* name into an email field of that page.
C10_GoogleFilledOnDestination ==
    /\ login = "google"
    /\ began_on_destination
    /\ OnClassroom(page)
    /\ \E i \in 1..Len(log) : log[i].act = "fill"

\* The scheduling of a login: a step that can be taken is taken, since every
\* wait of auth.py has a timeout.
FairSpecLogin == SpecLogin /\ WF_vars(NextLogin)

NoStateReentered == \A i, j \in 1..Len(visited) : visited[i] = visited[j] => i = j

\* C11: each login ends, by its return or by the exception of its first
\* navigation, whatever pages the browser shows; meanwhile no negotiation
\* state is entered a second time.
C11_LoginTerminates == <>(lpc = "ended") /\ []NoStateReentered

\* The Google login has returned although no field ever appeared: every
\* wait timed out and nothing was filled or clicked.
C11_EndedWithoutFields ==
    /\ login = "google"
    /\ lpc = "ended"
    /\ login_result = "returned"
    /\ log = <<>>
    /\ Len(visited) >= 3

\* The negotiation states in the order of the design.
StateOrder == <<"EmailEntry", "BrokerRedirectWait", "BrokerUsernameEntry",
                "BrokerPasswordEntry", "StaySignedInPrompt", "Destination">>

Rank(s) == CHOOSE k \in 1..Len(StateOrder) : StateOrder[k] = s

IsOrdered(s) == s # "WrongAccountRecovery"

\* The states entered, the recovery detour left out.
OrderedVisits == SelectSeq(visited, IsOrdered)

\* The login has found every target: it has typed the account name into the
\* email field and into the broker's username field, and the password.
EveryTargetFound ==
    /\ login = "google"
    /\ login_result = "returned"
    /\ \E i, j, k \in 1..Len(log) :
          /\ i < j /\ j < k
          /\ log[i].act = "fill" /\ log[i].target \in {email_selectors[n] : n \in 1..3}
          /\ log[j].act = "fill" /\ log[j].value = "username"
          /\ log[k].act = "fill" /\ log[k].value = "password"

Entered(s) == \E i \in 1..Len(visited) : visited[i] = s

\* A field-entry state has been left without its field: no selector of its
\* list matched, so that the state that follows a fill was not entered.
EmailExhausted ==
    /\ Entered("EmailEntry") /\ ~Entered("BrokerRedirectWait") /\ lpc # "g_next"
UsernameExhausted ==
    /\ Entered("BrokerUsernameEntry") /\ ~Entered("BrokerPasswordEntry")
    /\ lpc \notin {"g_password", "b_password"}
PasswordExhausted ==
    /\ Entered("BrokerPasswordEntry") /\ ~Entered("StaySignedInPrompt")
    /\ lpc \notin {"g_stay", "b_stay"}

SelectorsExhausted == EmailExhausted \/ UsernameExhausted \/ PasswordExhausted

\* C13: a login in which the email entry, the broker's username entry or the
\* broker's password entry has found none of its selectors raises no
\* exception and goes on to return the driver to its caller.
C13_ExhaustedReturns ==
    /\ [](SelectorsExhausted => login_result # "raised")
    /\ (SelectorsExhausted ~> (lpc = "ended" /\ login_result = "returned"))

\* The Brightspace login has returned from a broker page that showed the
\* username field and then no password field; the browser is not on
\* Brightspace.
C13_ReturnedUnauthenticated ==
    /\ login = "brightspace"
    /\ PasswordExhausted
    /\ login_result = "returned"
    /\ \E i \in 1..Len(log) : log[i].act = "fill"
    /\ ~Contains(page.url, "elearningontario.ca")

\* One turn of the loop over the Brightspace classes has been taken.
BSClassTurn == pc = "bs_class" /\ outcome' = outcome /\ <<pc, cls_index>>' # <<pc, cls_index>>

\* What that turn has appended to self.assignments.
TurnItems == SubSeq(assignments', Len(assignments) + 1, Len(assignments'))

Via(items, how) == \E i \in 1..Len(items) : items[i].via = how

\* The listing page of a course, as _scrape_class_assignments reads it.
ListingItems(env, cls) == IF env.rowsRaises THEN <<>> ELSE AssignmentRows(env.rows, cls)

\* C14 as stated: a course whose API and whose listing page both give no
\* assignment contributes no assignment item at all.
C14_BothZeroIsEmpty ==
    [][ (BSClassTurn /\ ~Via(TurnItems, "bs_api") /\ ~Via(TurnItems, "bs_rows"))
           => ~Via(TurnItems, "bs_quiz") ]_vars

\* C14: for a Brightspace course with a course id, the items of the API are
\* the course's assignments when there are any; otherwise the listing page
\* is scraped and then the quiz page, and their items together are the
\* course's assignments; a failed API call, page navigation or quiz page
\* counts as no items, so that with all three empty the course contributes
\* no assignment, and in every case the loop goes on without an exception.
C14_FallbackChain ==
    [][ BSClassTurn =>
          /\ \E env \in BSClassEnvs :
               LET cls == classes[cls_index]
                   api == _fetch_assignments_api(env, cls)
                   found == IF _extract_course_id(cls.url) = "" THEN <<>>
                            ELSE IF api # <<>> THEN api
                            ELSE ListingItems(env, cls) \o _scrape_quizzes(env, cls)
               IN  TurnItems = found \o _scrape_class_announcements(env, cls)
          /\ Via(TurnItems, "bs_api") => (~Via(TurnItems, "bs_rows") /\ ~Via(TurnItems, "bs_quiz"))
          /\ pc' \in {"bs_class", "bs_todo"}
          /\ bs_state' = bs_state /\ raised' = raised ]_vars

\* A course whose API answered nothing has given the row "Lab" of its
\* listing page, and the loop has gone on to the next course.
C14_ListingAfterEmptyApi ==
    /\ pc = "bs_class"
    /\ cls_index = 2
    /\ Len(assignments) = 1
    /\ assignments[1].via = "bs_rows"

\* A course whose API and listing page gave nothing has given the quiz of
\* its quiz page.
C14_QuizAfterBothEmpty ==
    /\ pc = "bs_class"
    /\ cls_index = 2
    /\ Len(assignments) = 1
    /\ assignments[1].via = "bs_quiz"

\* The course identifier of a Course, as its source's scraper reads it from
\* the course's address.
CourseIdentifier(c) ==
    IF c.platform = GOOGLE_CLASSROOM THEN CourseIdOf(c.url) ELSE _extract_course_id(c.url)

\* C15: after the enumeration of either source, no two Courses of the list
\* have the same course identifier.
C15_OneCoursePerId ==
    \A i, j \in 1..Len(classes) :
       (CourseIdentifier(classes[i]) # ""
        /\ CourseIdentifier(classes[i]) = CourseIdentifier(classes[j])) => i = j

\* The Brightspace home page linked course 101 by two addresses, and the
\* course list holds two Courses for it.
C15_TwoCoursesOneId ==
    /\ pc = "bs_class"
    /\ Len(classes) = 2
    /\ classes[1].url # classes[2].url
    /\ _extract_course_id(classes[1].url) = "101"
    /\ _extract_course_id(classes[2].url) = "101"

\* The class list of Google Classroom has been scraped and filtered.
GCListTurn == pc = "gc_list" /\ gc_state' = gc_state /\ outcome' = outcome /\ pc' # pc

GCLinkUrl(l) == IF StartsWith(l.href, "/") THEN GC_BASE_URL \o l.href ELSE l.href

\* The raw link fragments of a home page that name course `cid`.
Fragments(env, cid) ==
    {k \in 1..Len(env.links) :
        /\ ~env.links[k].raises /\ LinkText(env.links[k]) # ""
        /\ CourseIdOf(GCLinkUrl(env.links[k])) = cid}

\* C16: the display name of every Course that Google Classroom's link
\* consolidation builds is parsed from a fragment of that course whose text
\* no other fragment of the course exceeds in length, wherever on the page
\* that fragment comes.
C16_NameFromLongest ==
    [][ GCListTurn =>
          \E env \in GCListEnvs :
             /\ classes' = FilterClasses(GC_scrape_class_list(env, semester_classes),
                                         semester_classes)
             /\ CollectCourseTexts(env.links, <<>>) # <<>>
                   => \A i \in 1..Len(classes') :
                        LET cid == CourseIdOf(classes'[i].url)
                        IN  \E k \in Fragments(env, cid) :
                              /\ \A m \in Fragments(env, cid) :
                                    Len(LinkText(env.links[m])) <= Len(LinkText(env.links[k]))
                              /\ classes'[i].name = ClassNameOf(LinkText(env.links[k]), cid) ]_vars

\* The home page linked course abc123 by three fragments of 1, 12 and 40
\* characters; the course list holds one Course, named by the second line of
\* the 40-character fragment.
C16_LongestOfThree ==
    /\ pc = "gc_class"
    /\ Len(classes) = 1
    /\ classes[1].name = "ENG4U English Grade 12"
    /\ CourseIdOf(classes[1].url) = "abc123"

RECURSIVE RowsOf(_)
\* The rows of the tables, in the order in which they were printed.
RowsOf(tables) ==
    IF tables = <<>> THEN <<>> ELSE Head(tables).rows \o RowsOf(Tail(tables))

ShownRows == RowsOf(printed)

Urgent(a) == a.status = MISSING \/ is_overdue(a)

FutureAssigned(a) == a.status = ASSIGNED /\ a.due_date.has /\ a.due_date.t > 0

\* C17: in what the display prints, every overdue or Missing item comes
\* before every Assigned item with a due date in the future.
C17_UrgentBeforeFuture ==
    \A i, j \in 1..Len(ShownRows) :
       (FutureAssigned(ShownRows[i]) /\ Urgent(ShownRows[j])) => j < i

\* The display has printed the table of "ENG4U English" with the Assigned
\* item due tomorrow, and after it the table of "GLE Learning" that begins
\* with a Missing item.
C17_FutureCourseFirst ==
    /\ shown = "all"
    /\ Len(printed) = 2
    /\ FutureAssigned(printed[1].rows[1])
    /\ printed[2].rows[1].status = MISSING

\* The key of the combined view: overdue first, then the due date, an item
\* without a due date as if due at datetime.max.
CombinedKey(a) ==
    << IF is_overdue(a) THEN 0 ELSE 1,
       IF a.due_date.has THEN a.due_date.t ELSE DatetimeMax >>

\* C18: the rows the display prints are, as one sequence, sorted by "is
\* overdue" (overdue first) and then by due date ascending, an item without
\* a due date counting as due at the far-future sentinel.
C18_WholeSetSorted ==
    \A i, j \in 1..Len(ShownRows) :
       i < j => ~KeyLess(CombinedKey(ShownRows[j]), CombinedKey(ShownRows[i]))

\* A table has been printed in which a Missing item without a due date
\* stands before an overdue item.
C18_MissingBeforeOverdue ==
    /\ shown = "all"
    /\ \E k \in 1..Len(printed) :
          /\ Len(printed[k].rows) >= 2
          /\ printed[k].rows[1].status = MISSING /\ ~printed[k].rows[1].due_date.has
          /\ is_overdue(printed[k].rows[2])

\* The classes of the composite key: Missing, overdue, with a due date,
\* without a due date.
CompositeClass(a) ==
    IF a.status = MISSING THEN 0
    ELSE IF is_overdue(a) THEN 1
    ELSE IF a.due_date.has THEN 2 ELSE 3

\* Every table that was printed holds the items of one course, the items
\* without a course name under "General / Unknown", in the order of the
\* composite key.
PrintedTablesOrdered ==
    \A k \in 1..Len(printed) :
       LET rows == printed[k].rows
       IN  /\ \A i \in 1..Len(rows) :
                /\ printed[k].course = CourseKey(rows[i])
                /\ rows[i].course_name = "" <=> printed[k].course = "General / Unknown"
           /\ \A i, j \in 1..Len(rows) :
                i < j => /\ CompositeClass(rows[i]) <= CompositeClass(rows[j])
                         /\ (CompositeClass(rows[i]) = 2 /\ CompositeClass(rows[j]) = 2)
                               => rows[i].due_date.t <= rows[j].due_date.t

\* C19: once display_assignments has run, every course group of the
\* collection, the group of the items without a course name included, has
\* been printed as a table whose rows are in the order Missing, overdue,
\* due date ascending, no due date.
C19_GroupsOrdered ==
    shown # "none"
       => /\ PrintedTablesOrdered
          /\ \A i \in 1..Len(all_assignments) :
                \E k \in 1..Len(printed) :
                   /\ printed[k].course = CourseKey(all_assignments[i])
                   /\ \E r \in 1..Len(printed[k].rows) :
                         printed[k].rows[r] = all_assignments[i]

\* display_assignments has raised on a collection whose only course holds a
\* Brightspace assignment with an offset-aware due date: no table was
\* printed.
C19_GroupNotPrinted ==
    /\ shown = "classes"
    /\ outcome = "fatal"
    /\ printed = <<>>
    /\ Len(all_assignments) = 1
    /\ all_assignments[1].due_date.aware


\* The class list of Brightspace has been scraped and filtered.
BSListTurn == pc = "bs_list" /\ bs_state' = bs_state /\ outcome' = outcome /\ pc' # pc

\* Some configured subject code is a substring of the name, the case of the
\* letters set aside.
NamesSubject(name, codes) ==
    \E i \in 1..Len(codes) : Contains(Lower(name), Lower(codes[i]))

\* The courses a scraper goes on to scrape: the courses that name a subject,
\* in the order of the list, or the whole list when no course names one.
CoursesToScrape(all_classes, codes) ==
    LET retained == SelectSeq(all_classes, LAMBDA c : NamesSubject(c.name, codes))
    IN  IF retained # <<>> THEN retained ELSE all_classes

\* C20: on either source, the courses that are scraped are the courses of
\* the list whose name has some configured subject code as a
\* case-insensitive substring, when there is such a course, and the whole
\* unfiltered list when there is none.
C20_SubjectFilter ==
    [][ /\ GCListTurn
          => \E env \in GCListEnvs :
                classes' = CoursesToScrape(GC_scrape_class_list(env, semester_classes),
                                           semester_classes)
        /\ BSListTurn
          => \E env \in BSListEnvs :
                classes' = CoursesToScrape(BS_scrape_class_list(env, semester_classes),
                                           semester_classes) ]_vars

\* With the filter ["gle"], Google Classroom listed "ENG4U English" and "GLE
\* Learning" and only "GLE Learning" was scraped; Brightspace listed "ENG4U
\* English" alone, no course named the subject, and the whole list is about
\* to be scraped.
C20_FilteredAndFallback ==
    /\ semester_classes = <<"gle">>
    /\ Len(gc_classes) = 1 /\ gc_classes[1].name = "GLE Learning"
    /\ pc = "bs_class"
    /\ Len(classes) = 1 /\ classes[1].name = "ENG4U English"


\* The extraction paths that read the text around an item.
TextPaths == {"gc_stream", "gc_todo", "bs_rows", "bs_quiz"}

\* The status the fixed precedence gives to a raw text, "drop" when the item
\* is completed, "default" when no keyword is in the text.
PrecedenceStatus(raw) ==
    LET text == Lower(raw)
    IN  IF Contains(text, "missing") THEN MISSING
        ELSE IF Contains(text, "turned in") \/ Contains(text, "done") THEN "drop"
        ELSE IF Contains(text, "late") THEN LATE
        ELSE "default"

\* C21: every item emitted from a fragment of text has the status the one
\* precedence gives to that text: Missing for "missing", otherwise no item
\* at all for "turned in" or "done", otherwise Late for "late", otherwise
\* the default of the source, Assigned or NotSubmitted.
C21_UniformPrecedence ==
    \A items \in {assignments, global_todo, gc_assignments, bs_assignments, all_assignments} :
       \A i \in 1..Len(items) :
          items[i].via \in TextPaths
             => LET expected == PrecedenceStatus(items[i].raw)
                IN  /\ expected # "drop"
                    /\ expected = "default" => items[i].status \in {ASSIGNED, NOT_SUBMITTED}
                    /\ expected # "default" => items[i].status = expected

\* The Brightspace listing row "Lab / Turned in" is in the final collection,
\* as NotSubmitted.
C21_TurnedInRowEmitted ==
    \E i \in 1..Len(all_assignments) :
       /\ all_assignments[i].via = "bs_rows"
       /\ all_assignments[i].raw = "Lab\nTurned in"
       /\ all_assignments[i].status = NOT_SUBMITTED


\* A turn of the loop over the classes of either source, when no
\* interruption ends run() during it.
CourseTurn == pc \in {"gc_class", "bs_class"} /\ outcome' = outcome

IsPrefix(s, t) == Len(s) <= Len(t) /\ SubSeq(t, 1, Len(s)) = s

\* C22: a turn of the loop over the courses, whether the scrape of its
\* course raises or not, keeps every item collected from the earlier
\* courses and goes on to the next course of the list; the loop is left
\* only after the turn of the last course.
C22_CourseFailureContained ==
    [][ CourseTurn
          => /\ IsPrefix(assignments, assignments')
             /\ classes' = classes
             /\ gc_state' = gc_state /\ bs_state' = bs_state
             /\ IF cls_index < Len(classes)
                THEN pc' = pc /\ cls_index' = cls_index + 1
                ELSE pc' = Following(pc) ]_vars

\* Of two Google Classroom courses the page of the first could not be
\* opened (every page of the corpus that opens yields an item): the scraper
\* has returned the items of the second course alone.
C22_SecondCourseAfterFailure ==
    /\ pc = "gc_todo"
    /\ Len(gc_classes) = 2
    /\ gc_assignments # <<>>
    /\ \A i \in 1..Len(gc_assignments) :
          /\ gc_assignments[i].course_name = gc_classes[2].name
          /\ gc_assignments[i].course_name # gc_classes[1].name


Range(items) == {items[i] : i \in 1..Len(items)}

\* What the elements of an enumeration give when each is parsed alone: the
\* items of every element whose parse does not raise.
EachAlone(elems, parse(_)) ==
    UNION {Range(parse(elems[k])) : k \in {j \in 1..Len(elems) : ~elems[j].raises}}

\* One turn of the loop over the Google Classroom classes has been taken.
GCClassTurn == pc = "gc_class" /\ outcome' = outcome /\ <<pc, cls_index>>' # <<pc, cls_index>>

\* The global to-do page of Google Classroom has been scraped.
GCTodoTurn == pc = "gc_todo" /\ gc_state' = "returned"

\* The items of the news API's answer, an item with a null "Body" being one
\* whose parse raises.
ApiNews(env) ==
    [k \in 1..Len(FirstTen(env.news)) |->
        [raises |-> NewsItemRaises(env.news[k]), item |-> env.news[k]]]

\* The news page is read: the news API raised, one of its items did, or it
\* gave no announcement.
NewsPageRead(env, cls) ==
    \/ env.newsRaises
    \/ \E k \in 1..Len(ApiNews(env)) : ApiNews(env)[k].raises
    \/ NewsItems(FirstTen(env.news), cls) = <<>>

\* The stream containers of a class page are enumerated: every container
\* that parses gives its item.
StreamIsolated ==
    GCClassTurn =>
       \A env \in GCClassEnvs :
          (/\ ~env.gotoRaises /\ ~env.tabRaises /\ ~env.queryRaises
           /\ TurnItems = GC_scrape_class_assignments(env, classes[cls_index]))
             => EachAlone(env.containers, LAMBDA c : _parse_stream_item(c, classes[cls_index]))
                   \subseteq Range(TurnItems)

\* The rows of the assignment listing and of the quiz listing, and the items
\* of the news page, are enumerated likewise.
ListingsIsolated ==
    BSClassTurn =>
       \A env \in BSClassEnvs :
          LET cls == classes[cls_index]
          IN  (/\ _extract_course_id(cls.url) # ""
               /\ TurnItems = BS_scrape_class_assignments(env, cls)
                                 \o _scrape_class_announcements(env, cls))
                 => /\ (_fetch_assignments_api(env, cls) = <<>> /\ ~env.rowsRaises)
                          => EachAlone(env.rows, LAMBDA r : AssignmentRow(r, cls))
                                \subseteq Range(TurnItems)
                    /\ (_fetch_assignments_api(env, cls) = <<>> /\ ~env.quizRaises)
                          => EachAlone(env.quizRows, LAMBDA r : QuizRow(r, cls))
                                \subseteq Range(TurnItems)
                    /\ (~env.listRaises /\ NewsPageRead(env, cls))
                          => EachAlone(FirstTen(env.listItems),
                                       LAMBDA r : NewsListItems(<<r>>, cls))
                                \subseteq Range(TurnItems)

\* The announcements of the news API are enumerated likewise.
NewsIsolated ==
    BSClassTurn =>
       \A env \in BSClassEnvs :
          LET cls == classes[cls_index]
          IN  (/\ _extract_course_id(cls.url) # "" /\ ~env.newsRaises
               /\ TurnItems = BS_scrape_class_assignments(env, cls)
                                 \o _scrape_class_announcements(env, cls))
                 => EachAlone(ApiNews(env), LAMBDA n : NewsItem(n.item, cls))
                       \subseteq Range(TurnItems)

\* The containers of the global to-do page are enumerated likewise.
TodoIsolated ==
    GCTodoTurn =>
       \A env \in GCTodoEnvs :
          (/\ env.raises = "no" /\ env.containers # <<>>
           /\ ~Contains(Lower(env.body), "nothing on your to-do list")
           /\ global_todo' = scrape_global_todo(env, semester_classes))
             => EachAlone(env.containers,
                          LAMBDA c : _parse_global_todo_item(c, semester_classes))
                   \subseteq Range(global_todo')

\* C23: in every enumeration (stream containers, listing rows, quiz rows,
\* announcement items, global to-do items) an item whose parse fails is the
\* only item lost: every other item of the enumeration, before it or after
\* it, is parsed and emitted.
C23_ItemFailureIsolated ==
    [][StreamIsolated /\ ListingsIsolated /\ NewsIsolated /\ TodoIsolated]_vars

\* The enumerations other than that of the news API's answer.
ItemFailureIsolatedButNews ==
    [][StreamIsolated /\ ListingsIsolated /\ TodoIsolated]_vars

\* The news API answered "Essay", a blank title, "Trip" with a null body and
\* "Exam": the final collection holds the announcement "Essay" and the item
\* of the news page, and no "Exam".
C23_ExamNeverParsed ==
    /\ pc = "display"
    /\ \E i \in 1..Len(all_assignments) :
          all_assignments[i].via = "bs_news_api" /\ all_assignments[i].title = "Essay"
    /\ \E i \in 1..Len(all_assignments) : all_assignments[i].via = "bs_news_page"
    /\ \A i \in 1..Len(all_assignments) : all_assignments[i].title # "Exam"


\* The statement just executed tried to capture a screenshot, failed, and the
\* login or the scrape it belongs to was ended by an exception.
CaptureAborts ==
    /\ capture' = "failed"
    /\ \/ login_result' = "raised"
       \/ gc_state' = "failed" /\ gc_state # "failed"
       \/ bs_state' = "failed" /\ bs_state # "failed"
       \/ outcome' # outcome

\* C24: a screenshot is saved only when the debug flag is set, and no
\* failure to capture one ends the login or the scrape under way.
C24_CaptureOnlyInDebug ==
    /\ [](capture = "saved" => debug)
    /\ [][~CaptureAborts]_vars

\* Without the debug flag, scrape_all of Google Classroom has saved the
\* screenshot of the class list page and is about to scrape the first class.
C24_ClassListCaptured ==
    /\ ~debug
    /\ capture = "saved"
    /\ pc = "gc_class"
    /\ gc_state = "running"


\* The field-entry states of the two logins: email entry, broker username
\* entry, broker password entry.
FieldEntry == lpc \in {"g_email", "g_username", "g_password", "b_username", "b_password"}

\* The page is on the host the login is bound for.
OnDestination(p) ==
    IF login = "google" THEN OnClassroom(p) ELSE Contains(p.url, "elearningontario")

\* C25: when the wait of a field-entry state, of either login, ends on the
\* destination with no field filled, the login goes to the Destination
\* state: it enters no further field-entry state.
C25_RaceToDestination ==
    [][ (FieldEntry /\ OnDestination(page') /\ log' = log)
           => lpc' \in {"g_wait", "b_wait"} ]_vars

\* The same for the broker's username entry of the Brightspace login alone.
RaceAtBrightspaceUsername ==
    [][ (lpc = "b_username" /\ OnDestination(page') /\ log' = log)
           => lpc' = "b_wait" ]_vars

\* A Google login began on Classroom, filled and clicked nothing, and still
\* went from the email entry to the broker's username entry before the
\* destination wait.
C25_UsernameEntryOnDestination ==
    /\ login = "google" /\ lpc = "ended" /\ login_result = "returned"
    /\ began_on_destination
    /\ log = <<>>
    /\ visited = <<"EmailEntry", "BrokerUsernameEntry", "Destination">>


\* How many times the login went through the wrong-account recovery.
Recoveries == Cardinality({i \in 1..Len(visited) : visited[i] = "WrongAccountRecovery"})

\* The step is a wrong-account recovery: the Entra handler begins on a page
\* that shows the error marker.
RecoveryStep == lpc = "g_entra" /\ "AADSTS" \in page.els

C27_StopsAfterEmailExhausted ==
    [](login = "google" /\ EmailExhausted
         => ~Entered("BrokerUsernameEntry") /\ ~Entered("BrokerPasswordEntry"))

\* A Google login found no email field, and went on to fill in the broker's
\* username and password all the same.
C27_BrokerEntriesAfterExhaustion ==
    /\ login = "google" /\ EmailExhausted
    /\ login_result = "returned"
    /\ Entered("BrokerUsernameEntry") /\ Entered("BrokerPasswordEntry")
    /\ Cardinality({i \in 1..Len(log) : log[i].act = "fill"}) = 2


\* The login is at the stay-signed-in prompt.
AtStayPrompt == lpc \in {"g_stay", "b_stay"}
PromptAbsent == FirstFound(page, stay_selectors) = ""

\* C28: the stay-signed-in prompt is optional.  With or without the prompt
\* the step raises nothing and the login goes to the destination wait; when
\* the prompt is absent nothing is clicked and the page stays as it is.
C28_PromptOptional ==
    [][ AtStayPrompt =>
          /\ lpc' = (IF login = "google" THEN "g_wait" ELSE "b_wait")
          /\ login_result' = login_result
          /\ PromptAbsent => (log' = log /\ page' = page) ]_vars

\* A Google login filled in the email, the username and the password, met no
\* prompt after the password, clicked nothing there, and returned.
C28_ReturnedWithoutPrompt ==
    /\ login = "google" /\ lpc = "ended" /\ login_result = "returned"
    /\ Entered("StaySignedInPrompt")
    /\ log = <<Fill("input[type=email]", "username"), Click("#identifierNext"),
               Fill("input[name=loginfmt]", "username"), Click("#idSIButton9"),
               Fill("input[name=passwd]", "password"), Click("#idSIButton9")>>


\* The output of the first strategy, in the order given, that is not empty;
\* empty when every output is.
FirstNonEmpty(outputs) ==
    LET full == {i \in 1..Len(outputs) : outputs[i] # <<>>}
    IN  IF full = {} THEN <<>> ELSE outputs[CHOOSE i \in full : \A j \in full : i <= j]

\* What each strategy of the Brightspace course list finds on a home page,
\* run on its own: the homepage links, the enrollment API, the course
\* listing page.  A strategy that raises finds nothing.
BSStrategies(env, codes) ==
    << IF env.cardsRaises THEN <<>> ELSE CardClasses(env.cards, {}, codes),
       IF env.apiRaises THEN <<>> ELSE ApiClasses(env.apiItems, codes),
       IF env.pageRaises THEN <<>> ELSE PageClasses(env.pageLinks, {}, codes) >>

\* The same for Google Classroom: the primary link scan, the broader
\* selectors, the pattern over the page HTML.
GCStrategies(env, codes) ==
    << LET groups == CollectCourseTexts(env.links, <<>>)
       IN  [g \in 1..Len(groups) |-> GCClassOf(groups[g], codes)],
       IF env.fallbackRaises THEN <<>> ELSE FallbackLinkClasses(env.fallbackLinks, codes),
       IF env.htmlRaises THEN <<>> ELSE FallbackHtmlClasses(env.htmlMatches, codes) >>

\* Strategy `k` finds a course on the page and no earlier strategy does.
FirstToFind(outputs, k) == outputs[k] # <<>> /\ \A j \in 1..(k - 1) : outputs[j] = <<>>

\* C29: on either source the course list is the output of the first
\* strategy, in the source's order, that finds a course; what a later
\* strategy would find on the same page has no part in it.
C29_FirstStrategyWins ==
    [][ /\ GCListTurn
          => \E env \in GCListEnvs :
                classes' = FilterClasses(FirstNonEmpty(GCStrategies(env, semester_classes)),
                                         semester_classes)
        /\ BSListTurn
          => \E env \in BSListEnvs :
                classes' = FilterClasses(FirstNonEmpty(BSStrategies(env, semester_classes)),
                                         semester_classes) ]_vars

\* Every strategy of either source is, on some page of the corpus, the first
\* to find a course, and on some page a later strategy would have found a
\* different course than the one that won.
StrategiesExercised ==
    /\ \A k \in 1..3 :
          /\ \E env \in BSListEnvs : FirstToFind(BSStrategies(env, <<"ENG">>), k)
          /\ \E env \in GCListEnvs : FirstToFind(GCStrategies(env, <<"ENG">>), k)
    /\ \E env \in BSListEnvs :
          LET o == BSStrategies(env, <<"ENG">>)
          IN  o[1] # <<>> /\ o[2] # <<>> /\ o[3] # <<>> /\ o[1] # o[2] /\ o[2] # o[3]
    /\ \E env \in GCListEnvs :
          LET o == GCStrategies(env, <<"ENG">>)
          IN  o[1] # <<>> /\ o[2] # <<>> /\ o[3] # <<>> /\ o[1] # o[2] /\ o[2] # o[3]

\* Brightspace's course list is the one course the listing page names, on a
\* home page without course links whose enrollment API failed: the third
\* strategy has run, and the courses are about to be scraped.
C29_ListingPageCourse ==
    /\ StrategiesExercised
    /\ pc = "bs_class" /\ semester_classes = <<"gle">>
    /\ classes = FilterClasses(
                   PageClasses(<<Link("/d2l/home/101", "ENG4U English")>>, {}, <<"gle">>),
                   <<"gle">>)


\* The global to-do page `env` was loaded and does not say that the list is
\* empty: its two strategies are in play.
TodoPageListed(env) ==
    env.raises = "no" /\ ~Contains(Lower(env.body), "nothing on your to-do list")

\* C30: whenever the structured-container scan of the global to-do page
\* yields zero items, the items of the page are those of the detail-link
\* scan.
C30_DetailLinksAfterZeroItems ==
    [][ GCTodoTurn =>
          \A env \in GCTodoEnvs :
             (/\ TodoPageListed(env)
              /\ global_todo' = scrape_global_todo(env, semester_classes)
              /\ ParseTodoItems(env.containers, semester_classes) = <<>>)
                => global_todo' = ParseDetailLinks(env.links) ]_vars

\* The same for the pages without any structured container.
DetailLinksWithoutContainers ==
    [][ GCTodoTurn =>
          \A env \in GCTodoEnvs :
             (/\ TodoPageListed(env)
              /\ global_todo' = scrape_global_todo(env, semester_classes)
              /\ env.containers = <<>>)
                => global_todo' = ParseDetailLinks(env.links) ]_vars

\* The global to-do pass has returned no item from a page whose containers
\* gave none and whose detail links name an item.
C30_DetailLinksNotScanned ==
    /\ gc_state = "returned" /\ pc = "bs_login"
    /\ global_todo = <<>>
    /\ \E env \in GCTodoEnvs :
          /\ TodoPageListed(env)
          /\ env.containers # <<>>
          /\ scrape_global_todo(env, semester_classes) = global_todo
          /\ ParseDetailLinks(env.links) # <<>>


\* The body of the loaded to-do page `env` holds the phrase, in any case of
\* its letters.
SaysNothingOutstanding(env) ==
    env.raises = "no" /\ Contains(Lower(env.body), "nothing on your to-do list")

\* C31: when the body of the global to-do page holds the phrase "nothing on
\* your to-do list", in any case of its letters, the global pass returns an
\* empty list: neither its containers nor its detail links give an item.
C31_NothingOutstandingIsEmpty ==
    [][ GCTodoTurn =>
          \A env \in GCTodoEnvs :
             (SaysNothingOutstanding(env)
                /\ global_todo' = scrape_global_todo(env, semester_classes))
                => global_todo' = <<>> ]_vars

\* The global pass has returned no item, and a page of the corpus says
\* "nothing on your to-do list" while its containers hold an item, and
\* another says it in capitals while its detail links name one.
C31_PhraseOverItems ==
    /\ gc_state = "returned" /\ pc = "bs_login"
    /\ global_todo = <<>>
    /\ \E env \in GCTodoEnvs :
          /\ SaysNothingOutstanding(env)
          /\ ParseTodoItems(env.containers, semester_classes) # <<>>
          /\ scrape_global_todo(env, semester_classes) = global_todo
    /\ \E env \in GCTodoEnvs :
          /\ SaysNothingOutstanding(env) /\ env.body # Lower(env.body)
          /\ ParseDetailLinks(env.links) # <<>>
          /\ scrape_global_todo(env, semester_classes) = global_todo


\* The step has run the scroll routine from its call to its return, the
\* window back at the top.
ScrollRoutineRun == spc = "idle" /\ spc' = "done" /\ scrolls' >= 1 /\ scroll_y' = 0

\* C32: on each source, the step that enumerates the source's class list
\* has run the scroll-to-load routine on the page first.
C32_ScrolledBeforeEnumeration ==
    [][ (GCListTurn \/ BSListTurn) => ScrollRoutineRun ]_vars

\* The same for Brightspace alone.
ScrolledBeforeBrightspaceList ==
    [][ BSListTurn => ScrollRoutineRun ]_vars

\* The classes of Google Classroom have been enumerated, the first of them
\* is about to be scraped, and the scroll routine has not been called.
C32_ClassroomListUnscrolled ==
    /\ pc = "gc_class" /\ classes # <<>> /\ cls_index = 1
    /\ spc = "idle" /\ scrolls = 0


\* The routine has left its loop.
LoopLeft == spc \in {"top", "done"}

\* C33: the scroll-to-load routine terminates; it runs at most max_scrolls
\* iterations, even on a page that grows on every scroll; it leaves its loop
\* at the first iteration that finds the height unchanged; and it returns
\* with the window scrolled back to the top.
C33_ScrollTerminates ==
    /\ <>(spc = "done")
    /\ [](scrolls <= max_scrolls)
    /\ [](LoopLeft => scrolls = ScrollsRun(grows))
    /\ [][ (spc = "loop" /\ height' = height) => spc' = "top" ]_vars
    /\ [](spc = "done" => scroll_y = 0)

\* The routine, run from its call to its return as run() runs it, ends in
\* the state the statements of the routine lead to one by one.
ScrollRunAgrees ==
    [](spc = "done" =>
          LET n == ScrollsRun(grows)
              grown == Cardinality({k \in 1..n : grows[k]})
          IN  /\ scrolls = n /\ height = 1 + grown /\ scroll_y = 0
              /\ previous_height = IF grows[n] THEN grown ELSE 1 + grown)

\* The routine has returned from a page that grew on every scroll: ten
\* iterations, and the window at the top.
C33_TenScrollsThenTop ==
    /\ spc = "done"
    /\ \A k \in 1..(max_scrolls + 1) : grows[k]
    /\ scrolls = max_scrolls /\ height = 1 + max_scrolls
    /\ scroll_y = 0


\* The lines of a text that hold more than white space, as they stand.
NonEmptyLines(text) == SelectSeq(SplitLines(text), LAMBDA l : Strip(l) # "")

\* The display name the text of a link stands for: its second non-empty line
\* when it has two and the first is an icon glyph of one or two characters,
\* else its first non-empty line.
DisplayName(text) ==
    LET lines == NonEmptyLines(text)
    IN  IF Len(lines) >= 2 /\ Len(Strip(lines[1])) \in {1, 2}
        THEN Strip(lines[2]) ELSE Strip(lines[1])

\* C34: the display name of every course that Google Classroom's link
\* consolidation builds is the second non-empty line of the chosen text when
\* that text has at least two non-empty lines and its first line has one or
\* two characters, and the first non-empty line otherwise.
C34_NameFromIconRule ==
    [][ GCListTurn =>
          \E env \in GCListEnvs :
             /\ classes' = FilterClasses(GC_scrape_class_list(env, semester_classes),
                                         semester_classes)
             /\ CollectCourseTexts(env.links, <<>>) # <<>>
                   => \A i \in 1..Len(classes') :
                        LET cid == CourseIdOf(classes'[i].url)
                        IN  \E k \in Fragments(env, cid) :
                              /\ \A m \in Fragments(env, cid) :
                                    Len(LinkText(env.links[m])) <= Len(LinkText(env.links[k]))
                              /\ classes'[i].name = DisplayName(LinkText(env.links[k])) ]_vars

\* The texts of the corpus cover the rule: an icon of one character and one
\* of two before a name, a name of more than two characters before a second
\* line, and an icon letter alone.
IconRuleExercised ==
    LET texts == UNION {{LinkText(env.links[k]) : k \in 1..Len(env.links)} : env \in GCListEnvs}
    IN  /\ \E t \in texts : Len(NonEmptyLines(t)) >= 2 /\ Len(Strip(NonEmptyLines(t)[1])) = 1
        /\ \E t \in texts : Len(NonEmptyLines(t)) >= 2 /\ Len(Strip(NonEmptyLines(t)[1])) = 2
        /\ \E t \in texts : Len(NonEmptyLines(t)) >= 2 /\ Len(Strip(NonEmptyLines(t)[1])) > 2
        /\ \E t \in texts : Len(NonEmptyLines(t)) = 1 /\ Len(Strip(NonEmptyLines(t)[1])) = 1

\* The course list of Google Classroom is the one course named "E": its only
\* link shows an icon letter and no second line.
C34_IconLetterAlone ==
    /\ IconRuleExercised
    /\ pc = "gc_class" /\ cls_index = 1
    /\ Len(classes) = 1 /\ classes[1].name = "E"
    /\ CourseIdOf(classes[1].url) = "abc123"


\* The global to-do pass of Google Classroom has been left without an
\* interruption: it returned, or it raised an Exception.
GCTodoLeft == pc = "gc_todo" /\ outcome' = outcome

\* C35: when the global to-do pass of Google Classroom is left, by a return
\* or by an exception, the items scrape_all returned for the courses are all
\* in gc_assignments still, in their order, and gc_assignments is appended
\* to the final collection; when the pass raised, nothing else is.
C35_TodoFailureKeepsItems ==
    [][ GCTodoLeft =>
          /\ IsPrefix(gc_assignments, gc_assignments')
          /\ all_assignments' = all_assignments \o gc_assignments'
          /\ global_todo' = <<>> => gc_assignments' = gc_assignments
          /\ gc_state' = "returned" ]_vars

\* The items of two courses of Google Classroom are in the final collection
\* after a global pass that gave nothing: no page could be had for it, or
\* its page listed nothing new.
C35_CourseItemsKept ==
    /\ pc = "bs_login" /\ gc_state = "returned"
    /\ Len(gc_classes) = 2
    /\ global_todo = <<>>
    /\ gc_assignments # <<>>
    /\ all_assignments = gc_assignments
    /\ \E env \in GCTodoEnvs : env.raises = "page"


\* What the step has appended to the log.
Typed == SubSeq(log', Len(log) + 1, Len(log'))

\* The step has typed the password, or the account identifier into a
\* username field.
PasswordTyped == \E i \in 1..Len(Typed) : Typed[i].act = "fill" /\ Typed[i].value = "password"
UsernameTyped ==
    \E i \in 1..Len(Typed), k \in 1..Len(username_selectors) :
       Typed[i] = Fill(username_selectors[k], "username")

AtUsernameEntry == lpc \in {"g_username", "b_username"}
AtPasswordEntry == lpc \in {"g_password", "b_password"}

\* C36: in either login the password is typed by the broker's password
\* entry alone, and that state is entered only from the broker's username
\* entry by a step that typed the account identifier into a username field:
\* a login that found no username field never types the password.
C36_PasswordAfterUsername ==
    /\ [][ PasswordTyped => AtPasswordEntry ]_vars
    /\ [][ (AtPasswordEntry' /\ ~AtPasswordEntry) => (AtUsernameEntry /\ UsernameTyped) ]_vars
    /\ [](UsernameExhausted => \A i \in 1..Len(log) : log[i].value # "password")

\* A Brightspace login has typed the account identifier into the broker's
\* username field and, after it, the password.
C36_UsernameThenPassword ==
    /\ login = "brightspace" /\ lpc = "b_stay"
    /\ \E i, j \in 1..Len(log) :
          /\ i < j
          /\ log[i] = Fill("input[name=loginfmt]", "username")
          /\ log[j] = Fill("input[name=passwd]", "password")
    /\ Cardinality({i \in 1..Len(log) : log[i].act = "fill"}) = 2


\* The browser shows Brightspace's own login page: the session is not
\* authenticated.
OnLanding(p) == Contains(p.url, "elearningontario.ca/d2l/login")

\* C37: a Brightspace login that is still on Brightspace's landing page when
\* login_brightspace looks at the address, its login button not found or
\* its redirect not fired, goes on to the broker's username entry; the
\* broker handler is skipped on the authenticated destination only.
C37_LandingNotSkipped ==
    [][ (lpc = "b_check" /\ OnLanding(page)) => lpc' = "b_username" ]_vars

\* The broker handler is skipped on Brightspace's host, and there only.
SkippedOnBrightspaceHost ==
    [][ (lpc = "b_check" /\ lpc' = "b_wait") => already_on_bs(page) ]_vars

\* A Brightspace login has returned from the landing page, on which it found
\* no login button, without entering the broker's username entry.
C37_ReturnedFromLanding ==
    /\ login = "brightspace" /\ lpc = "ended" /\ login_result = "returned"
    /\ OnLanding(page)
    /\ log = <<>>
    /\ visited = <<"Destination">>


\* The places of a text at which the word begins.
Occurrences(text, word) ==
    {i \in 1..(Len(text) - Len(word) + 1) : SubSeq(text, i, i + Len(word) - 1) = word}

\* The row reads "Not Submitted" and carries no other completion marker:
\* no "completed", and no "submitted" but after "not ".
ReadsNotSubmitted(row) ==
    LET text == Lower(row.text)
    IN  /\ ~row.raises
        /\ Occurrences(text, "not submitted") # {}
        /\ ~Contains(text, "completed")
        /\ \A i \in Occurrences(text, "submitted") : (i - 4) \in Occurrences(text, "not submitted")

\* The items a turn has emitted from the row, by the path `how`.
EmittedFrom(row, how) ==
    {i \in 1..Len(TurnItems) : TurnItems[i].via = how /\ TurnItems[i].raw = row.text}

\* C38: every row of a Brightspace assignment listing or quiz listing that
\* reads "Not Submitted", and carries no other completion marker, is
\* emitted, with the status NotSubmitted.
C38_NotSubmittedRowEmitted ==
    [][ BSClassTurn =>
          \A env \in BSClassEnvs :
             LET cls == classes[cls_index]
             IN  (/\ _extract_course_id(cls.url) # ""
                  /\ _fetch_assignments_api(env, cls) = <<>>
                  /\ TurnItems = BS_scrape_class_assignments(env, cls)
                                    \o _scrape_class_announcements(env, cls))
                    => /\ ~env.rowsRaises =>
                            \A k \in 1..Len(env.rows) :
                               ReadsNotSubmitted(env.rows[k]) =>
                                  \E i \in EmittedFrom(env.rows[k], "bs_rows") :
                                     TurnItems[i].status = NOT_SUBMITTED
                       /\ ~env.quizRaises =>
                            \A k \in 1..Len(env.quizRows) :
                               ReadsNotSubmitted(env.quizRows[k]) =>
                                  \E i \in EmittedFrom(env.quizRows[k], "bs_quiz") :
                                     TurnItems[i].status = NOT_SUBMITTED ]_vars

\* Every item of a listing row or quiz row has the status NotSubmitted or
\* Missing, and no row that holds "submitted" or "completed" is emitted.
RowsWithMarkerDropped ==
    \A i \in 1..Len(all_assignments) :
       all_assignments[i].via \in {"bs_rows", "bs_quiz"}
          => /\ all_assignments[i].status \in {NOT_SUBMITTED, MISSING}
             /\ ~Contains(Lower(all_assignments[i].raw), "submitted")
             /\ ~Contains(Lower(all_assignments[i].raw), "completed")

\* The one Brightspace course listed the rows "Essay / Not Submitted" and
\* "Lab / Turned in": the scraper has returned "Lab" and no "Essay".
C38_NotSubmittedRowDropped ==
    /\ pc = "bs_todo" /\ Len(classes) = 1
    /\ \E i \in 1..Len(assignments) :
          assignments[i].via = "bs_rows" /\ assignments[i].raw = "Lab\nTurned in"
    /\ \A i \in 1..Len(assignments) : assignments[i].title # "Essay"
    /\ \E env \in BSClassEnvs :
          \E k \in 1..Len(env.rows) :
             ReadsNotSubmitted(env.rows[k]) /\ env.rows[k].text = "Essay\nNot Submitted"


\* The rows the quiz listing of a course gives, as _scrape_quizzes emits them.
QuizListing(env, cls) == _scrape_quizzes(env, cls)

\* C39: the quiz listing of a Brightspace course is scraped whichever
\* assignment strategy gave results: the turn of a course holds the items
\* of its quiz listing both when the API returned assignments and when it
\* returned none.
C39_QuizzesWhateverTheStrategy ==
    [][ BSClassTurn =>
          \A env \in BSClassEnvs :
             LET cls == classes[cls_index]
             IN  (/\ _extract_course_id(cls.url) # ""
                  /\ TurnItems = BS_scrape_class_assignments(env, cls)
                                    \o _scrape_class_announcements(env, cls))
                    => \A k \in 1..Len(QuizListing(env, cls)) :
                          \E i \in 1..Len(TurnItems) : TurnItems[i] = QuizListing(env, cls)[k] ]_vars

\* No turn of a course holds both items of the API and items of the quiz
\* listing: the quizzes are reached only when the API gave nothing.
QuizzesOnlyAfterEmptyApi ==
    [][ BSClassTurn => ~(Via(TurnItems, "bs_api") /\ Via(TurnItems, "bs_quiz")) ]_vars

\* The API of the one Brightspace course returned the folder "Essay" and
\* its quiz listing has the row "Quiz 1 / Not started": the scraper has
\* returned the essay and no quiz.
C39_QuizzesSkippedAfterApi ==
    /\ pc = "bs_todo" /\ Len(classes) = 1
    /\ Via(assignments, "bs_api") /\ ~Via(assignments, "bs_quiz")
    /\ \E env \in BSClassEnvs :
          /\ _fetch_assignments_api(env, classes[1]) # <<>>
          /\ QuizListing(env, classes[1]) # <<>>
          /\ \A k \in 1..Len(_fetch_assignments_api(env, classes[1])) :
                \E i \in 1..Len(assignments) :
                   assignments[i] = _fetch_assignments_api(env, classes[1])[k]

====
